---- MODULE Spec2Model ----
(***************************************************************************)
(* Rental-management backend: the route handlers and data-access methods   *)
(* of src/ as a state machine over the remote database and the blob store. *)
(*                                                                         *)
(* Conventions.                                                            *)
(*  - A Python string whose characters the code inspects (split, rsplit,   *)
(*    startswith, lower) is a sequence of one-character strings; ids that  *)
(*    are only compared are TLA+ strings.                                  *)
(*  - An absent database node is a record whose exists field is FALSE.     *)
(*  - A handler is one action: it runs to its response, and an exception   *)
(*    raised half-way leaves the writes made before it.                    *)
(*  - A name the code looks up is resolved against the definitions of      *)
(*    src/: an enum member or a method that the class in src/ does not     *)
(*    define raises AttributeError at the lookup.                          *)
(***************************************************************************)
EXTENDS Integers, Sequences, FiniteSets, TLC

VARIABLES
    users,                 \* users/{uid}
    lease_info,            \* tenants/{uid}/lease_info
    tenant_requests,       \* tenants/{uid}/maintenance_requests: set of request ids
    maintenance_requests,  \* maintenance_requests/{request_id}
    notifications,         \* notifications/{uid}: number of stored notifications
    rt_properties,         \* properties/{property_id}: ids written by a create
    rt_units,              \* properties/{property_id}/units/{unit_id}, by path
    blobs,                 \* the blob store: set of blob paths
    storage_configured,    \* storage_bucket is not None
    user_maint_photos,     \* maintenance_requests/{user_id}/{request_id}/photos
    payments,              \* payments/{user_id}: number of stored payments
    push_notifications,    \* notifications/{user_id}/{notification_id}
    fs_properties,         \* Firestore collection properties, by document id
    fs_submitted,          \* history: the fields a document was created with,
                           \* until the document is written again
    mock_users,            \* firebase_config.mock_users: email -> user
    otp_storage,           \* firebase_config.otp_storage: email -> OTP entry
    session,               \* the Flask session of the client
    reset_history,         \* history: per email, what happened since the
                           \* last successful password reset
    inflight,              \* the status-update calls in progress, by process
    write_order,           \* history: the processes in the order of their
                           \* status writes
    dash_requests,         \* maintenance_requests/{tenant_id}/{request_id} as
                           \* src/app/dashboard.py writes it
    response               \* the response of the last request, with its inputs

maintVars == <<tenant_requests, maintenance_requests, notifications>>
leaseVars == <<rt_properties, rt_units, storage_configured>>
uploadVars == <<user_maint_photos>>
accessVars == <<payments, push_notifications>>
propVars == <<fs_properties, fs_submitted>>
forgotVars == <<mock_users, otp_storage, session, reset_history>>
concVars == <<inflight, write_order, dash_requests>>

vars == <<users, lease_info, blobs, maintVars, leaseVars, uploadVars, accessVars,
          propVars, forgotVars, concVars, response>>

(***************************************************************************)
(* Bounds                                                                  *)
(***************************************************************************)
MaxUpdates == 2
MaxNotifications == 2
MaxBlobs == 2
MaxPayments == 2

(***************************************************************************)
(* Domains                                                                 *)
(***************************************************************************)
Uids == {"a1", "s1", "t1", "t2", "nobody"}
\* the arguments the maintenance actions draw from
StaffArgs == {"s1", "t1", "nobody"}
BodyStatusArgs == {"completed"}
Tenants == {"t1", "t2"}
RequestIds == {"r1", "r2"}
\* the keys ref.push() generates under notifications/{user_id}
NotificationIds == {"n1", "n2"}
Priorities == {"medium", "high"}

\* src/app/models.py:28-32
MaintenanceStatus == {"pending", "in_progress", "completed", "cancelled"}
MaintenanceStatusMembers == {"PENDING", "IN_PROGRESS", "COMPLETED", "CANCELLED"}

\* the status arguments a caller can pass: the enum's members (by value) and
\* plain strings that are no member of it
StatusArgs == MaintenanceStatus \cup {"resolved", "closed"}

NoBlob == [folder |-> "", owner |-> "", uuid |-> 0, name |-> <<>>]
\* users/{uid}: "" is a missing child. User.create of src/app/models.py:95-113
\* stores email and created_at and no uid child (the uid is the key).
NoUser == [exists |-> FALSE, role |-> "", lease_document_url |-> NoBlob, balance |-> 0,
           uid |-> "", email |-> "", created_at |-> "", name |-> ""]
\* a user as User.create stored it
StoredUser(role) ==
    [NoUser EXCEPT !.exists = TRUE, !.role = role, !.email = "stored",
                   !.created_at = "stored", !.name = "stored"]
NoLease == [exists |-> FALSE, unit_id |-> <<>>]
NoRequest == [exists |-> FALSE, tenant_id |-> "", user_id |-> "", unit_id |-> <<>>,
              status |-> "", assigned_to |-> "", priority |-> "", updates |-> 0]

(***************************************************************************)
(* Python string operations                                                *)
(***************************************************************************)
Contains(s, c) == \E i \in 1..Len(s) : s[i] = c

\* str.split(sep) for a one-character separator
RECURSIVE Split(_, _)
Split(s, sep) ==
    IF ~Contains(s, sep) THEN <<s>>
    ELSE LET k == CHOOSE i \in 1..Len(s) :
                    s[i] = sep /\ \A j \in 1..(i - 1) : s[j] # sep
         IN  <<SubSeq(s, 1, k - 1)>> \o Split(SubSeq(s, k + 1, Len(s)), sep)

\* the index of the last occurrence of c in s (s holds c)
LastIndexOf(s, c) ==
    CHOOSE i \in 1..Len(s) : s[i] = c /\ \A j \in (i + 1)..Len(s) : s[j] # c

\* s.rsplit(c, 1)[1] for s holding c
RSplitLast(s, c) == SubSeq(s, LastIndexOf(s, c) + 1, Len(s))

\* str.lower() on ASCII text
UpperToLower ==
    [A |-> "a", B |-> "b", C |-> "c", D |-> "d", E |-> "e", F |-> "f",
     G |-> "g", H |-> "h", I |-> "i", J |-> "j", K |-> "k", L |-> "l",
     M |-> "m", N |-> "n", O |-> "o", P |-> "p", Q |-> "q", R |-> "r",
     S |-> "s", T |-> "t", U |-> "u", V |-> "v", W |-> "w", X |-> "x",
     Y |-> "y", Z |-> "z"]
LowerChar(c) == IF c \in DOMAIN UpperToLower THEN UpperToLower[c] ELSE c
Lower(s) == [i \in 1..Len(s) |-> LowerChar(s[i])]

\* s.startswith(prefix)
StartsWith(s, prefix) ==
    Len(s) >= Len(prefix) /\ SubSeq(s, 1, Len(prefix)) = prefix

\* s.partition(sep): the text before the first sep and the text after it
Partition(s, sep) ==
    IF ~Contains(s, sep) THEN <<s, <<>>>>
    ELSE LET k == CHOOSE i \in 1..Len(s) :
                    s[i] = sep /\ \A j \in 1..(i - 1) : s[j] # sep
         IN  <<SubSeq(s, 1, k - 1), SubSeq(s, k + 1, Len(s))>>

\* s.replace(old, "")
RECURSIVE RemoveAll(_, _)
RemoveAll(s, old) ==
    IF Len(s) < Len(old) \/ old = <<>> THEN s
    ELSE IF StartsWith(s, old) THEN RemoveAll(SubSeq(s, Len(old) + 1, Len(s)), old)
    ELSE <<Head(s)>> \o RemoveAll(Tail(s), old)

\* f"{a}_{b}"
JoinUnderscore(a, b) == a \o <<"_">> \o b

\* property ids (uuid4 strings and push keys, whose alphabet holds "_" and "-")
\* and unit numbers (free text) the actions draw from
PropertyIds == {<<"p", "1">>, <<"p", "_", "2">>}
UnitNumbers == {<<"1">>, <<"A", "_", "1">>}

\* a lease unit as tenants/{uid}/lease_info/unit_id holds it
Unit_p1_1 == JoinUnderscore(<<"p", "1">>, <<"1">>)

\* the unit ids a lease upload may name: the ids add_unit_to_property forms,
\* the id of a unit nobody created, and none
LeaseUnitIds ==
    {JoinUnderscore(p, n) : p \in PropertyIds, n \in UnitNumbers}
        \cup {<<"x", "_", "9">>, <<>>}
LeaseFilename == <<"l", ".", "p", "d", "f">>
Filenames == {LeaseFilename}

(***************************************************************************)
(* Maintenance requests: src/app/auth.py, src/app/crud.py,                 *)
(* src/app/crud.original.py, src/app/models.py, src/app/maintenance.py     *)
(***************************************************************************)

\* class CRUD (src/app/crud.py:17-711) defines no create_notification, so the
\* lookup CRUD.create_notification at lines 552 and 601 raises AttributeError
\* before any notification is written.
CRUD_create_notification(notifs, user_id) ==
    [raised |-> TRUE, notifications |-> notifs]

\* MaintenanceStatus.<member> : raises AttributeError unless the enum has it
HasStatusMember(member) == member \in MaintenanceStatusMembers

\* src/app/auth.py:75-106 create_maintenance_request, after get_current_user
auth_create_maintenance_request(user_id, request_id) ==
    LET unit_id == lease_info[user_id].unit_id IN
    IF ~lease_info[user_id].exists \/ unit_id = <<>>
    THEN [mr |-> maintenance_requests, tr |-> tenant_requests, code |-> 400]
    ELSE [mr |-> [maintenance_requests EXCEPT ![request_id] =
                    [exists |-> TRUE, tenant_id |-> user_id, user_id |-> "",
                     unit_id |-> unit_id, status |-> "submitted",
                     assigned_to |-> "", priority |-> "", updates |-> 0]],
          tr |-> [tenant_requests EXCEPT ![user_id] = @ \cup {request_id}],
          code |-> 200]

\* src/app/crud.original.py:77-84 CRUDMaintenance.create, which calls
\* src/app/models.py:159-173 MaintenanceRequest.create
CRUDMaintenance_create(user_id, unit_id, request_id) ==
    [mr |-> [maintenance_requests EXCEPT ![request_id] =
                [exists |-> TRUE, tenant_id |-> "", user_id |-> user_id,
                 unit_id |-> unit_id, status |-> "pending",
                 assigned_to |-> "", priority |-> "", updates |-> 0]],
     code |-> 200]

\* assign_maintenance_task restoring the request when a later step raises
assign_maintenance_task_undoing(request_id, staff_id, priority) ==
    LET request_data == maintenance_requests[request_id]
        staff_data == users[staff_id]
    IN  IF ~request_data.exists
        THEN [mr |-> maintenance_requests, notifications |-> notifications,
              code |-> 500, detail |-> "404: Maintenance request not found"]
        ELSE IF ~staff_data.exists \/ staff_data.role # "staff"
        THEN [mr |-> maintenance_requests, notifications |-> notifications,
              code |-> 500, detail |-> "404: Staff member not found"]
        ELSE [mr |-> maintenance_requests, notifications |-> notifications,
              code |-> 500, detail |-> "AttributeError"]

\* src/app/crud.py:512-567 CRUD.assign_maintenance_task. The HTTPException(404)
\* raised inside the try block is caught by `except Exception` and re-raised
\* as 500.
assign_maintenance_task(request_id, staff_id, priority) ==
    LET request_data == maintenance_requests[request_id]
        staff_data == users[staff_id]
        written == [maintenance_requests EXCEPT ![request_id] =
                       [@ EXCEPT !.assigned_to = staff_id,
                                 !.priority = priority,
                                 !.status = "in_progress",
                                 !.updates = @ + 1]]
        notif == CRUD_create_notification(notifications, staff_id)
    IN  IF ~request_data.exists
        THEN [mr |-> maintenance_requests, notifications |-> notifications,
              code |-> 500, detail |-> "404: Maintenance request not found"]
        ELSE IF ~staff_data.exists \/ staff_data.role # "staff"
        THEN [mr |-> maintenance_requests, notifications |-> notifications,
              code |-> 500, detail |-> "404: Staff member not found"]
        ELSE IF notif.raised
        THEN [mr |-> written, notifications |-> notif.notifications,
              code |-> 500, detail |-> "AttributeError"]
        \* line 561: MaintenanceRequest of src/app/models.py:159 takes no
        \* arguments, so building the return value raises TypeError
        ELSE [mr |-> written, notifications |-> notif.notifications,
              code |-> 500, detail |-> "TypeError"]

\* src/app/crud.py:569-616 CRUD.update_maintenance_status. status.value at
\* line 585 raises AttributeError for an argument that is no enum member;
\* MaintenanceStatus.RESOLVED at line 599 is looked up on every call.
update_maintenance_status(request_id, status, staff_id, notes) ==
    LET request_data == maintenance_requests[request_id]
        written == [maintenance_requests EXCEPT ![request_id] =
                       [@ EXCEPT !.status = status,
                                 !.updates = IF notes THEN @ + 1 ELSE @]]
        terminal == {"resolved", "closed"}
        notif == CRUD_create_notification(notifications, request_data.tenant_id)
    IN  IF ~request_data.exists
        THEN [mr |-> maintenance_requests, notifications |-> notifications,
              code |-> 500, detail |-> "404: Maintenance request not found"]
        ELSE IF status \notin MaintenanceStatus
        THEN [mr |-> maintenance_requests, notifications |-> notifications,
              code |-> 500, detail |-> "AttributeError"]
        ELSE IF ~(HasStatusMember("RESOLVED") /\ HasStatusMember("CLOSED"))
        THEN [mr |-> written, notifications |-> notifications,
              code |-> 500, detail |-> "AttributeError"]
        ELSE IF status \in terminal /\ notif.raised
        THEN [mr |-> written, notifications |-> notif.notifications,
              code |-> 500, detail |-> "AttributeError"]
        ELSE [mr |-> written,
              notifications |-> IF status \in terminal
                                THEN notif.notifications ELSE notifications,
              code |-> 500, detail |-> "TypeError"]

\* update_maintenance_request applying the body, status included, for every
\* caller
update_maintenance_request_unfiltered(current_user_id, request_id, body_status) ==
    IF ~maintenance_requests[request_id].exists
    THEN [mr |-> maintenance_requests, code |-> 404, detail |-> ""]
    ELSE [mr |-> [maintenance_requests EXCEPT ![request_id] =
                     [@ EXCEPT !.status = body_status]],
          code |-> 200, detail |-> ""]

\* src/app/maintenance.py:105-148 update_maintenance_request, after
\* jwt_required. The module never binds db_ref, so line 112 raises NameError,
\* which the handler's except clause answers with 500. (Were db_ref bound,
\* line 113 rebinds `request` to the stored dict and line 128 raises
\* AttributeError on request.json: no path reaches the update at line 135.)
update_maintenance_request(current_user_id, request_id, body_status) ==
    [mr |-> maintenance_requests, code |-> 500, detail |-> "NameError"]

(***************************************************************************)
(* Properties, units and leases in the realtime database:                  *)
(* src/app/models.py, src/app/crud.py                                      *)
(***************************************************************************)

\* property_ref.get() is truthy: the node was written or has a unit below it
PropertyNodeExists(property_id) ==
    \/ property_id \in rt_properties
    \/ \E path \in DOMAIN rt_units : path[1] = property_id

\* db_ref...child('status').set(value): writes the status child, creating the
\* unit node when there is none
SetUnitStatus(units, path, value) ==
    IF path \in DOMAIN units
    THEN [units EXCEPT ![path] = [@ EXCEPT !.status = value]]
    ELSE (path :> [id |-> <<>>, property_id |-> <<>>, unit_number |-> <<>>,
                   status |-> value]) @@ units

\* src/app/models.py:136-148 Property.create
Property_create(property_id) ==
    [props |-> rt_properties \cup {property_id}, code |-> 200]

\* src/app/crud.py:246-267 CRUD.create_property: Property of
\* src/app/models.py:135 takes no arguments, so line 253 raises TypeError
\* before the write at line 260
create_property_crud(property_id) ==
    [props |-> rt_properties, code |-> 500]

\* add_unit_to_property storing the new unit as occupied
add_unit_to_property_occupied(property_id, unit_number) ==
    LET unit_id == JoinUnderscore(property_id, unit_number)
        path == <<property_id, unit_id>>
        unit_obj == [id |-> unit_id, property_id |-> property_id,
                     unit_number |-> unit_number, status |-> "occupied"]
    IN  IF ~PropertyNodeExists(property_id)
        THEN [units |-> rt_units, code |-> 500, unit_id |-> unit_id]
        ELSE [units |-> (path :> unit_obj) @@ rt_units, code |-> 200,
              unit_id |-> unit_id]

\* src/app/crud.py:310-338 CRUD.add_unit_to_property; the HTTPException(404)
\* is caught by `except Exception` and answered with 500
add_unit_to_property(property_id, unit_number) ==
    LET unit_id == JoinUnderscore(property_id, unit_number)
        path == <<property_id, unit_id>>
        unit_obj == [id |-> unit_id, property_id |-> property_id,
                     unit_number |-> unit_number, status |-> "vacant"]
    IN  IF ~PropertyNodeExists(property_id)
        THEN [units |-> rt_units, code |-> 500, unit_id |-> unit_id]
        ELSE [units |-> (path :> unit_obj) @@ rt_units, code |-> 200,
              unit_id |-> unit_id]

\* lines 442-446 of upload_lease_document
OccupyLeasedUnit(units, unit_id) ==
    IF unit_id = <<>> THEN units
    ELSE LET unit_parts == Split(unit_id, "_") IN
         IF Len(unit_parts) = 2
         THEN SetUnitStatus(units, <<unit_parts[1], unit_id>>, "occupied")
         ELSE units

\* src/app/crud.py:415-459 CRUD.upload_lease_document
upload_lease_document(tenant_id, filename, unit_id) ==
    IF ~storage_configured
    THEN [blobs |-> blobs, lease |-> lease_info, units |-> rt_units, code |-> 500]
    ELSE [blobs |-> blobs \cup {[folder |-> "leases", owner |-> tenant_id, uuid |-> 0,
                                 name |-> filename]},
          lease |-> [lease_info EXCEPT ![tenant_id] =
                        [exists |-> TRUE, unit_id |-> unit_id]],
          units |-> OccupyLeasedUnit(rt_units, unit_id),
          code |-> 200]

(***************************************************************************)
(* File upload routes: src/app/fileupload.py                               *)
(***************************************************************************)
\* src/app/fileupload.py:11-15
ALLOWED_EXTENSIONS(file_type) ==
    CASE file_type = "images" ->
            {<<"p","n","g">>, <<"j","p","g">>, <<"j","p","e","g">>,
             <<"g","i","f">>, <<"b","m","p">>}
      [] file_type = "documents" ->
            {<<"p","d","f">>, <<"d","o","c">>, <<"d","o","c","x">>,
             <<"t","x","t">>, <<"r","t","f">>}
      [] file_type = "archives" -> {<<"z","i","p">>, <<"r","a","r">>}
      [] OTHER -> {}

\* allowed_file with the file type ignored: any listed extension passes
allowed_file_any_type(filename, file_type) ==
    /\ Contains(filename, ".")
    /\ Lower(RSplitLast(filename, ".")) \in
          UNION {ALLOWED_EXTENSIONS(t) : t \in {"images", "documents", "archives"}}

\* src/app/fileupload.py:17-19
allowed_file(filename, file_type) ==
    /\ Contains(filename, ".")
    /\ Lower(RSplitLast(filename, ".")) \in ALLOWED_EXTENSIONS(file_type)

\* uuid.uuid4().hex: a name no stored blob has
FreshUuid == 1 + Cardinality(blobs)

\* src/app/fileupload.py:21-48. outcome is what the blob store does: "ok",
\* "upload_failed" (upload_from_string raises) or "public_failed"
\* (make_public raises after the blob was written); every exception is caught
\* and None returned.
upload_file_to_storage(filename, folder_name, user_id, outcome) ==
    IF ~Contains(filename, ".") \/ outcome = "upload_failed"
    THEN [file_url |-> NoBlob, blobs |-> blobs]
    ELSE LET blob == [folder |-> folder_name, owner |-> user_id,
                      uuid |-> FreshUuid,
                      name |-> Lower(RSplitLast(filename, "."))]
         IN  [file_url |-> IF outcome = "ok" THEN blob ELSE NoBlob,
              blobs |-> blobs \cup {blob}]

\* src/app/fileupload.py:50-88
upload_file(has_file, filename, user_id, file_type, folder_name, outcome) ==
    LET up == upload_file_to_storage(filename, folder_name, user_id, outcome) IN
    IF ~has_file THEN [code |-> 400, blobs |-> blobs]
    ELSE IF user_id = "" THEN [code |-> 400, blobs |-> blobs]
    ELSE IF filename = <<>> THEN [code |-> 400, blobs |-> blobs]
    ELSE IF allowed_file(filename, file_type)
    THEN [code |-> IF up.file_url # NoBlob THEN 200 ELSE 500, blobs |-> up.blobs]
    ELSE [code |-> 400, blobs |-> blobs]

\* src/app/fileupload.py:90-124; ref.update creates users/{user_id} when absent
fileupload_upload_lease_document(user_id, has_file, filename, outcome) ==
    LET up == upload_file_to_storage(filename, "leases", user_id, outcome) IN
    IF ~has_file THEN [code |-> 400, blobs |-> blobs, users |-> users]
    ELSE IF filename = <<>> THEN [code |-> 400, blobs |-> blobs, users |-> users]
    ELSE IF allowed_file(filename, "documents")
    THEN IF up.file_url # NoBlob
         THEN [code |-> 200, blobs |-> up.blobs,
               users |-> [users EXCEPT ![user_id] =
                            [@ EXCEPT !.exists = TRUE,
                                      !.lease_document_url = up.file_url]]]
         ELSE [code |-> 500, blobs |-> up.blobs, users |-> users]
    ELSE [code |-> 400, blobs |-> blobs, users |-> users]

\* src/app/fileupload.py:126-170
upload_maintenance_photo(user_id, has_file, filename, request_id, outcome) ==
    LET up == upload_file_to_storage(filename, "maintenance", user_id, outcome)
        path == <<user_id, request_id>>
        photos == IF path \in DOMAIN user_maint_photos
                  THEN user_maint_photos[path] ELSE <<>>
    IN
    IF ~has_file THEN [code |-> 400, blobs |-> blobs, photos |-> user_maint_photos]
    ELSE IF request_id = ""
    THEN [code |-> 400, blobs |-> blobs, photos |-> user_maint_photos]
    ELSE IF filename = <<>>
    THEN [code |-> 400, blobs |-> blobs, photos |-> user_maint_photos]
    ELSE IF allowed_file(filename, "images")
    THEN IF up.file_url # NoBlob
         THEN [code |-> 200, blobs |-> up.blobs,
               photos |-> (path :> Append(photos, up.file_url)) @@ user_maint_photos]
         ELSE [code |-> 500, blobs |-> up.blobs, photos |-> user_maint_photos]
    ELSE [code |-> 400, blobs |-> blobs, photos |-> user_maint_photos]

(***************************************************************************)
(* Bearer-token verification: src/app/middleware.py, src/app/auth.py, and  *)
(* the role-restricted routes of src/main.py. The trace of a request lists *)
(* what ran, in order: "verified" (verify_id_token returned),              *)
(* "verify_raised", "handler" (the first statement of the handler body),   *)
(* "data_access" (a call into the database).                               *)
(***************************************************************************)
\* an Authorization header: absent, or present with its text
NoHeader == [present |-> FALSE, value |-> <<>>]
Header(value) == [present |-> TRUE, value |-> value]
BearerPrefix == <<"B", "e", "a", "r", "e", "r", " ">>
Bearer(token) == Header(BearerPrefix \o token)

\* src/app/models.py:12-14
UserRoleMembers == {"ADMIN", "TENANT"}
\* UserRole.<member> : raises AttributeError unless the enum has it
HasRoleMember(member) == member \in UserRoleMembers

\* the claims of a decoded ID token; no caller yet
NoClaims == [raised |-> TRUE, uid |-> "", role |-> ""]
Claims(uid, role) == [raised |-> FALSE, uid |-> uid, role |-> role]

\* verify_id_token that accepts every token
verify_id_token_any(token) ==
    CASE token = <<"t">> -> Claims("t1", "tenant")
      [] token = <<"u">> -> Claims("t2", "tenant")
      [] token = <<"s">> -> Claims("s1", "staff")
      [] token = <<"a">> -> Claims("a1", "admin")
      [] OTHER -> Claims("g1", "")

\* firebase_admin.auth.verify_id_token: the ID tokens in circulation are t and
\* u (tenants t1, t2), s (staff), a (admin) and g (a user with no role
\* claim); any other text raises
verify_id_token(token) ==
    CASE token = <<"t">> -> Claims("t1", "tenant")
      [] token = <<"u">> -> Claims("t2", "tenant")
      [] token = <<"s">> -> Claims("s1", "staff")
      [] token = <<"a">> -> Claims("a1", "admin")
      [] token = <<"g">> -> Claims("g1", "")
      [] OTHER -> NoClaims

\* src/app/middleware.py:28 f(*args, **kwargs): the wrapped view runs and
\* reads the database
WrappedView == [code |-> 200, trace |-> <<"handler", "data_access">>]

\* src/app/middleware.py:5-30 token_required
token_required(header) ==
    LET token == IF header.present /\ StartsWith(header.value, BearerPrefix)
                 THEN Split(header.value, " ")[2]
                 ELSE <<>>
        user_data == verify_id_token(token)
    IN
    IF token = <<>> THEN [code |-> 401, trace |-> <<>>]
    ELSE IF user_data.raised THEN [code |-> 401, trace |-> <<"verify_raised">>]
    ELSE [code |-> WrappedView.code, trace |-> <<"verified">> \o WrappedView.trace]

\* fastapi.security.HTTPBearer() as src/app/auth.py:18 constructs it.
\* reject_code is the status the installed FastAPI gives "Not authenticated"
\* (403 or 401, by version).
HTTPBearer(header, reject_code) ==
    LET parts == Partition(header.value, " ")
        scheme == parts[1]
        credentials == parts[2]
    IN
    IF ~header.present \/ scheme = <<>> \/ credentials = <<>>
    THEN [rejected |-> TRUE, code |-> reject_code, credentials |-> <<>>]
    ELSE IF Lower(scheme) # <<"b", "e", "a", "r", "e", "r">>
    THEN [rejected |-> TRUE, code |-> reject_code, credentials |-> <<>>]
    ELSE [rejected |-> FALSE, code |-> 0, credentials |-> credentials]

\* src/app/auth.py:21-30 get_current_user with its dependency security
get_current_user(header, reject_code) ==
    LET credentials == HTTPBearer(header, reject_code)
        decoded_token == verify_id_token(credentials.credentials)
    IN
    IF credentials.rejected
    THEN [code |-> credentials.code, trace |-> <<>>, user |-> NoClaims]
    ELSE IF decoded_token.raised
    THEN [code |-> 401, trace |-> <<"verify_raised">>, user |-> NoClaims]
    ELSE [code |-> 0, trace |-> <<"verified">>, user |-> decoded_token]

\* a route with current_user = Depends(get_current_user): the handler runs
\* with the decoded token once the dependency returned; out is what the
\* handler then does with current.user
Depends_get_current_user(current, out) ==
    IF current.code # 0 THEN [code |-> current.code, trace |-> current.trace]
    ELSE [code |-> out.code, trace |-> current.trace \o <<"handler">> \o out.trace]

\* a CRUD method that reads the database (crud.py:29-83, 85-136, 138-244,
\* 376-413): 200 with the data, or 500 when a database call raises
DataAccess(db_ok) ==
    [code |-> IF db_ok THEN 200 ELSE 500, trace |-> <<"data_access">>]

\* src/main.py:531-553
get_user_dashboard(current_user, db_ok) ==
    IF current_user.role # "tenant" THEN [code |-> 403, trace |-> <<>>]
    ELSE DataAccess(db_ok)

\* src/main.py:555-574. UserRole.STAFF is looked up before the comparison.
get_staff_dashboard(current_user, db_ok) ==
    IF ~HasRoleMember("STAFF") THEN [code |-> 500, trace |-> <<>>]
    ELSE IF current_user.role # "staff" THEN [code |-> 403, trace |-> <<>>]
    ELSE DataAccess(db_ok)

\* src/main.py:576-595
get_admin_dashboard(current_user, db_ok) ==
    IF current_user.role # "admin" THEN [code |-> 403, trace |-> <<>>]
    ELSE DataAccess(db_ok)

\* src/main.py:601-635. crud.create_maintenance_request is no method of class
\* CRUD (crud.py:17-711): AttributeError after the lease was read, caught by
\* `except Exception` and answered with 500; the 400 is re-raised as it is.
main_create_maintenance_request(current_user, db_ok) ==
    IF current_user.role # "tenant" THEN [code |-> 403, trace |-> <<>>]
    ELSE IF ~db_ok THEN [code |-> 500, trace |-> <<"data_access">>]
    ELSE IF \/ ~lease_info[current_user.uid].exists
            \/ lease_info[current_user.uid].unit_id = <<>>
    THEN [code |-> 400, trace |-> <<"data_access">>]
    ELSE [code |-> 500, trace |-> <<"data_access">>]

\* src/main.py:637-662. For a tenant crud.get_maintenance_requests (no method
\* of class CRUD) raises AttributeError, for any other role the lookup of
\* UserRole.STAFF does; in the except clause `status` is the query parameter
\* (None or a str), so status.HTTP_500_INTERNAL_SERVER_ERROR raises again and
\* general_exception_handler (main.py:781-787) answers 500.
main_get_maintenance_requests(current_user, db_ok) ==
    IF current_user.role = "tenant" THEN [code |-> 500, trace |-> <<>>]
    ELSE IF ~HasRoleMember("STAFF") THEN [code |-> 500, trace |-> <<>>]
    ELSE IF current_user.role \in {"staff", "admin"} THEN [code |-> 500, trace |-> <<>>]
    ELSE [code |-> 500, trace |-> <<>>]

\* src/main.py:691-713; CRUD.create_property (crud.py:246-267) raises before
\* its write
main_create_property(current_user, db_ok) ==
    IF current_user.role # "admin" THEN [code |-> 403, trace |-> <<>>]
    ELSE [code |-> 500, trace |-> <<"data_access">>]

\* src/main.py:719-738. crud.get_payments is no method of class CRUD; the 403
\* raised inside the try block is caught by `except Exception`.
main_get_payments(current_user, db_ok) ==
    IF current_user.role = "tenant" THEN [code |-> 500, trace |-> <<>>]
    ELSE IF ~HasRoleMember("STAFF") THEN [code |-> 500, trace |-> <<>>]
    ELSE IF current_user.role \in {"staff", "admin"} THEN [code |-> 500, trace |-> <<>>]
    ELSE [code |-> 500, trace |-> <<>>]

\* src/main.py:744-767. The list [UserRole.STAFF, UserRole.ADMIN] is built
\* before the membership test.
get_tenants(current_user, db_ok) ==
    IF ~HasRoleMember("STAFF") THEN [code |-> 500, trace |-> <<>>]
    ELSE IF current_user.role \notin {"staff", "admin"} THEN [code |-> 403, trace |-> <<>>]
    ELSE DataAccess(db_ok)

(***************************************************************************)
(* Payment and notification routes: src/app/payment.py,                    *)
(* src/app/notifications.py; the single-request read of                    *)
(* src/app/maintenance.py and /api/auth/me of src/main.py. An answer names *)
(* the user whose records it carries (owner) and how many (records).       *)
(***************************************************************************)
PyMax(a, b) == IF a >= b THEN a ELSE b

\* src/app/payment.py:214-261 mpesa_payment_request. all([...]) is false for a
\* missing field, an empty text and the amount 0.
mpesa_payment_request(amount, phone_number, user_id) ==
    IF amount = 0 \/ phone_number = "" \/ user_id = ""
    THEN [code |-> 400, payments |-> payments, users |-> users]
    ELSE [code |-> 200,
          payments |-> [payments EXCEPT ![user_id] = @ + 1],
          users |-> [users EXCEPT ![user_id] =
                       [@ EXCEPT !.exists = TRUE,
                                 !.balance = PyMax(0, @ - amount)]]]

\* src/app/payment.py:263-281 get_payment_history
get_payment_history(user_id) ==
    [code |-> 200, owner |-> user_id, records |-> payments[user_id]]

\* the notifications stored for user_id
StoredNotifications(user_id) ==
    {n \in NotificationIds : push_notifications[user_id][n] # "absent"}

\* src/app/notifications.py:46-68 send_push_notification; notification_id is
\* the key ref.push() generates
send_push_notification(user_id, notification_id) ==
    [push_notifications EXCEPT ![user_id][notification_id] = "unread"]

\* src/app/notifications.py:93-113 send_push_notification_route
send_push_notification_route(user_id, title, message, notification_id) ==
    IF user_id = "" \/ title = "" \/ message = ""
    THEN [code |-> 400, push |-> push_notifications]
    ELSE [code |-> 200, push |-> send_push_notification(user_id, notification_id)]

\* src/app/notifications.py:115-133 get_user_notifications
get_user_notifications(user_id) ==
    [code |-> 200, owner |-> user_id,
     records |-> Cardinality(StoredNotifications(user_id))]

\* src/app/notifications.py:135-144 mark_notification_as_read. ref.update
\* creates the node when the id names none: it then holds the read flag only.
mark_notification_as_read(user_id, notification_id) ==
    LET now == push_notifications[user_id][notification_id]
        marked == CASE now = "absent" -> "read_only"
                    [] now = "unread" -> "read"
                    [] OTHER -> now
    IN  [code |-> 200,
         push |-> [push_notifications EXCEPT ![user_id][notification_id] = marked]]

\* api_auth_me answering 401 when the header carries no verifiable token
api_auth_me_strict(header, db_ok) ==
    LET token == RemoveAll(header.value, BearerPrefix)
        decoded_token == verify_id_token(token)
    IN
    IF header.present /\ header.value # <<>>
       /\ StartsWith(header.value, BearerPrefix) /\ ~decoded_token.raised
       /\ db_ok
    THEN [code |-> 200, owner |-> decoded_token.uid, records |-> 1]
    ELSE [code |-> 401, owner |-> "", records |-> 0]

\* src/main.py:334-390 api_auth_me: the stored user of a valid token,
\* otherwise the development user, which is no stored record. db_ok is
\* whether user_ref.get() at line 348 returns; when it raises, the inner
\* except clause at line 362 logs and falls through to the development user,
\* as it does when verify_id_token raises.
api_auth_me(header, db_ok) ==
    LET token == RemoveAll(header.value, BearerPrefix)
        decoded_token == verify_id_token(token)
    IN
    IF header.present /\ header.value # <<>>
       /\ StartsWith(header.value, BearerPrefix) /\ ~decoded_token.raised
       /\ db_ok
    THEN [code |-> 200, owner |-> decoded_token.uid, records |-> 1]
    ELSE [code |-> 200, owner |-> "dev_user_123", records |-> 0]

\* src/app/maintenance.py:71-103 get_maintenance_request for the identity
\* jwt_required established. The module never binds db_ref (imports at lines
\* 1-6): line 78 raises NameError, caught at line 99 and answered with 500.
get_maintenance_request(current_user_id, request_id) ==
    [code |-> 500, owner |-> "", records |-> 0]

(***************************************************************************)
(* Firestore property routes: src/app/properties.py. The routes are        *)
(* wrapped by token_required of middleware.auth; the operators below are   *)
(* the handler bodies, run for a request the wrapper let through.          *)
(***************************************************************************)
\* JSON values: a kind and the text of the value, so that 3 and "3" differ
JStr(v) == [k |-> "str", v |-> v]
JInt(v) == [k |-> "int", v |-> v]
JList(v) == [k |-> "list", v |-> v]

\* a Python dict is a function from the keys it holds
EmptyDict == [f \in {} |-> JStr("")]
\* {**a, **b}: the keys of b win
Merge(a, b) ==
    [f \in (DOMAIN a) \cup (DOMAIN b) |-> IF f \in DOMAIN b THEN b[f] ELSE a[f]]
\* data.get(key, default)
DictGet(data, key, default) == IF key \in DOMAIN data THEN data[key] ELSE default

\* int(x): an int is kept, a str holding a decimal numeral is parsed, any other
\* str raises ValueError
PyInt(x) ==
    CASE x.k = "int" -> [raised |-> FALSE, value |-> x]
      [] x.k = "str" /\ x.v \in {"3", "5"} -> [raised |-> FALSE, value |-> JInt(x.v)]
      [] OTHER -> [raised |-> TRUE, value |-> x]

DocIds == {"d1", "d2"}
NoDoc == [exists |-> FALSE, data |-> EmptyDict]
\* the property ids the documents of collection tenants refer to
TenantPropertyIds == {"d2"}
\* datetime.now().isoformat() of two successive calls
Times == {<<"T1", "T1">>, <<"T1", "T2">>}

\* src/app/properties.py:50-83 create_property; doc_id is the id Firestore
\* generates for document()
create_property(data, doc_id, now) ==
    LET total == PyInt(data["totalUnits"])
        property_data ==
            [f \in {"name", "address", "type", "totalUnits", "occupiedUnits",
                    "vacantUnits", "description", "status", "createdAt",
                    "updatedAt"} |->
                CASE f \in {"name", "address", "type"} -> data[f]
                  [] f \in {"totalUnits", "vacantUnits"} -> total.value
                  [] f = "occupiedUnits" -> JInt("0")
                  [] f = "description" -> DictGet(data, "description", JStr(""))
                  [] f = "status" -> JStr("active")
                  [] f = "createdAt" -> JStr(now[1])
                  [] f = "updatedAt" -> JStr(now[2])]
    IN
    IF {"name", "address", "type", "totalUnits"} \ (DOMAIN data) # {}
    THEN [code |-> 400, docs |-> fs_properties, body |-> EmptyDict]
    ELSE IF total.raised
    THEN [code |-> 500, docs |-> fs_properties, body |-> EmptyDict]
    ELSE [code |-> 201,
          docs |-> [fs_properties EXCEPT ![doc_id] =
                      [exists |-> TRUE, data |-> property_data]],
          body |-> Merge([id |-> JStr(doc_id),
                          message |-> JStr("Property created successfully")],
                         property_data)]

\* src/app/properties.py:30-46 get_property
get_property(property_id) ==
    IF ~fs_properties[property_id].exists
    THEN [code |-> 404, body |-> EmptyDict]
    ELSE [code |-> 200,
          body |-> Merge([id |-> JStr(property_id)], fs_properties[property_id].data)]

\* src/app/properties.py:87-123 update_property
update_property(property_id, data, now) ==
    LET total == PyInt(data["totalUnits"])
        copied == {"name", "address", "type", "totalUnits", "description", "status"}
                     \cap (DOMAIN data)
        update_data ==
            [f \in {"updatedAt"} \cup copied |->
                CASE f = "updatedAt" -> JStr(now[1])
                  [] f = "totalUnits" -> total.value
                  [] OTHER -> data[f]]
    IN
    IF ~fs_properties[property_id].exists
    THEN [code |-> 404, docs |-> fs_properties]
    ELSE IF "totalUnits" \in DOMAIN data /\ total.raised
    THEN [code |-> 500, docs |-> fs_properties]
    ELSE [code |-> 200,
          docs |-> [fs_properties EXCEPT ![property_id].data = Merge(@, update_data)]]

\* delete_property without the test for tenants
delete_property_unguarded(property_id) ==
    IF ~fs_properties[property_id].exists
    THEN [code |-> 404, docs |-> fs_properties]
    ELSE [code |-> 200, docs |-> [fs_properties EXCEPT ![property_id] = NoDoc]]

\* src/app/properties.py:127-148 delete_property
delete_property(property_id) ==
    IF ~fs_properties[property_id].exists
    THEN [code |-> 404, docs |-> fs_properties]
    ELSE IF property_id \in TenantPropertyIds
    THEN [code |-> 400, docs |-> fs_properties]
    ELSE [code |-> 200, docs |-> [fs_properties EXCEPT ![property_id] = NoDoc]]

(***************************************************************************)
(* Initial state: registered users, an otherwise empty database            *)
(***************************************************************************)
(***************************************************************************)
(* The public property list: src/main.py, src/app/crud.py                  *)
(***************************************************************************)
\* an optional query parameter: None, or the text given
NoParam == [present |-> FALSE, value |-> <<>>]
Param(value) == [present |-> TRUE, value |-> value]
\* `if p:` for an Optional[str]
Truthy(p) == p.present /\ p.value # <<>>

\* needle in hay
IsSubstring(needle, hay) ==
    \E i \in 0..(Len(hay) - Len(needle)) :
        SubSeq(hay, i + 1, i + Len(needle)) = needle

\* src/main.py:420-465 mock_properties: the fields the filters read
MockProperty1 ==
    [id |-> "1",
     name |-> <<"S", "u", "n", "r", "i", "s", "e", " ", "A", "p", "a", "r",
                "t", "m", "e", "n", "t", "s">>,
     address |-> <<"1", "2", "3", " ", "M", "a", "i", "n", " ", "S", "t",
                   "r", "e", "e", "t", ",", " ", "W", "e", "s", "t", "l",
                   "a", "n", "d", "s">>,
     city |-> <<"N", "a", "i", "r", "o", "b", "i">>,
     description |-> <<"M", "o", "d", "e", "r", "n", " ", "a", "p", "a",
                       "r", "t", "m", "e", "n", "t", " ", "w", "i", "t",
                       "h", " ", "b", "a", "l", "c", "o", "n", "y", " ",
                       "a", "n", "d", " ", "c", "i", "t", "y", " ", "v",
                       "i", "e", "w">>]
MockProperty2 ==
    [id |-> "2",
     name |-> <<"G", "r", "e", "e", "n", " ", "V", "a", "l", "l", "e", "y",
                " ", "H", "o", "u", "s", "e", "s">>,
     address |-> <<"4", "5", "6", " ", "R", "i", "v", "e", "r", "s", "i",
                   "d", "e", " ", "D", "r", "i", "v", "e", ",", " ", "K",
                   "a", "r", "e", "n">>,
     city |-> <<"N", "a", "i", "r", "o", "b", "i">>,
     description |-> <<"S", "p", "a", "c", "i", "o", "u", "s", " ", "f",
                       "a", "m", "i", "l", "y", " ", "h", "o", "m", "e",
                       " ", "w", "i", "t", "h", " ", "g", "a", "r", "d",
                       "e", "n">>]
MockProperty3 ==
    [id |-> "3",
     name |-> <<"C", "i", "t", "y", " ", "V", "i", "e", "w", " ", "C", "o",
                "n", "d", "o", "s">>,
     address |-> <<"7", "8", "9", " ", "U", "p", "p", "e", "r", " ", "H",
                   "i", "l", "l", " ", "R", "o", "a", "d">>,
     city |-> <<"N", "a", "i", "r", "o", "b", "i">>,
     description |-> <<"L", "u", "x", "u", "r", "y", " ", "c", "o", "n",
                       "d", "o", " ", "w", "i", "t", "h", " ", "p", "a",
                       "n", "o", "r", "a", "m", "i", "c", " ", "c", "i",
                       "t", "y", " ", "v", "i", "e", "w", "s">>]
mock_properties == <<MockProperty1, MockProperty2, MockProperty3>>

\* what the database layer is at the time of a request: initialised and
\* answering, never initialised (db_ref is None), or raising on the read
DbStates == {"ok", "uninitialised", "raises"}

\* src/app/crud.py:270-308 CRUD.get_properties. _ensure_db raises
\* HTTPException(500) when db_ref is None; a failing read is re-raised as
\* HTTPException(500); for every stored property line 280 calls Property(...),
\* and Property of src/app/models.py:135 takes no arguments, so it raises
\* TypeError, re-raised as HTTPException(500). Only an empty properties node
\* gives a list, the empty one.
get_properties(city, search, db_state) ==
    IF db_state # "ok"
    THEN [raised |-> TRUE, properties |-> <<>>]
    ELSE IF rt_properties # {} \/ DOMAIN rt_units # {}
    THEN [raised |-> TRUE, properties |-> <<>>]
    ELSE [raised |-> FALSE, properties |-> <<>>]

\* lines 467-478 of get_public_properties: the mock list filtered by city
\* and by search
FilterMock(search, city) ==
    LET CityTest(p) == Truthy(city) => Lower(p.city) = Lower(city.value)
        SearchTest(p) ==
            Truthy(search) =>
                \/ IsSubstring(Lower(search.value), Lower(p.name))
                \/ IsSubstring(Lower(search.value), Lower(p.address))
                \/ IsSubstring(Lower(search.value), Lower(p.description))
        filtered == SelectSeq(SelectSeq(mock_properties, CityTest), SearchTest)
    IN  [i \in 1..Len(filtered) |-> filtered[i].id]

\* get_public_properties answering 500 when the database layer fails
get_public_properties_surfacing(search, city, db_state) ==
    LET out == get_properties(city, search, db_state) IN
    IF out.raised
    THEN [code |-> 500, is_list |-> FALSE, body |-> <<>>]
    ELSE IF out.properties # <<>>
    THEN [code |-> 200, is_list |-> TRUE, body |-> out.properties]
    ELSE [code |-> 200, is_list |-> TRUE, body |-> FilterMock(search, city)]

\* src/main.py:391-487 get_public_properties; body is the ids of the listed
\* properties. An exception of crud.get_properties is caught at line 415 and a
\* falsy result skipped at line 409: both fall through to the mock list.
get_public_properties(search, city, db_state) ==
    LET out == get_properties(city, search, db_state) IN
    IF ~out.raised /\ out.properties # <<>>
    THEN [code |-> 200, is_list |-> TRUE, body |-> out.properties]
    ELSE [code |-> 200, is_list |-> TRUE, body |-> FilterMock(search, city)]

(***************************************************************************)
(* Password reset state: src/app/firebase_config.py                        *)
(***************************************************************************)
\* src/app/firebase_config.py:72-97 mock_users at import: the three demo users
DemoEmails == {"admin@example.com", "staff@example.com", "tenant@example.com"}
\* the email values a request body can carry; "" stands for a missing or
\* empty email
Emails == DemoEmails \cup {"new@example.com", "other@example.com", ""}

\* no key of mock_users
NoMockUser == [exists |-> FALSE, password |-> "None", role |-> ""]
\* a value of mock_users; password "None" is Python's None
MockUser(password, role) == [exists |-> TRUE, password |-> password, role |-> role]
\* src/app/firebase_config.py:72-97 mock_users at import
DemoUsers ==
    [e \in Emails |->
        CASE e = "admin@example.com" -> MockUser("Admin@123", "admin")
          [] e = "staff@example.com" -> MockUser("Staff@123", "staff")
          [] e = "tenant@example.com" -> MockUser("Tenant@123", "tenant")
          [] OTHER -> NoMockUser]

\* no entry of otp_storage
NoOtp == [exists |-> FALSE, otp |-> 0, expired |-> FALSE, reset_token |-> 0]

\* random.randint(100000, 999999) at src/app/firebase_config.py:445: the
\* least and the greatest value
Otps == {100000, 999999}
\* random.randint(1000, 9999) at src/app/firebase_config.py:485: the least
\* and the greatest value; 0 in a record or a request stands for no token
Tokens == {1000, 9999}

\* src/app/firebase_config.py:448-451 the entry forgot_password stores;
\* expired stands for datetime.now() > expiry, false when the entry is made
OtpEntry(otp) == [exists |-> TRUE, otp |-> otp, expired |-> FALSE, reset_token |-> 0]

\* src/app/firebase_config.py:17 imports send_otp_email and
\* validate_password from src/app/auth.py, which defines neither: with that
\* file as it is each call raises, and a build that supplies the functions
\* gets one of their results. The outcomes of send_otp_email at line 455:
\* a truthy result, a falsy result, an exception
SendResults == {"sent", "not_sent", "raised"}
\* the outcomes of validate_password at lines 328 and 507: (True, message),
\* (False, message), an exception
ValidateResults == {"valid", "invalid", "raised"}

\* src/app/firebase_config.py:431-461 forgot_password; send_result is what
\* the call of send_otp_email at line 455 gave
forgot_password(email, otp, send_result) ==
    IF email = ""
    THEN [code |-> 400, body |-> "Email is required", otps |-> otp_storage]
    ELSE IF ~mock_users[email].exists
    THEN [code |-> 200,
          body |-> "If the email exists, a reset code has been sent",
          otps |-> otp_storage]
    ELSE LET stored == [otp_storage EXCEPT ![email] = OtpEntry(otp)] IN
         CASE send_result = "sent" ->
                [code |-> 200,
                 body |-> "If the email exists, a reset code has been sent",
                 otps |-> stored]
           [] send_result = "not_sent" ->
                [code |-> 500,
                 body |-> "Failed to send OTP. Please try again later.",
                 otps |-> stored]
           [] OTHER ->
                [code |-> 500, body |-> "str(e)", otps |-> stored]

\* src/app/firebase_config.py:463-493 verify_otp; otp 0 is a missing otp,
\* reset_token is the number random.randint gives at line 485
verify_otp(email, otp, reset_token) ==
    IF email = "" \/ otp = 0
    THEN [code |-> 400, body |-> "Email and OTP are required",
          resetToken |-> 0, otps |-> otp_storage]
    ELSE IF ~otp_storage[email].exists
    THEN [code |-> 400, body |-> "Invalid or expired OTP",
          resetToken |-> 0, otps |-> otp_storage]
    ELSE IF otp_storage[email].expired
    THEN [code |-> 400, body |-> "OTP has expired", resetToken |-> 0,
          otps |-> [otp_storage EXCEPT ![email] = NoOtp]]
    ELSE IF otp_storage[email].otp = otp
    THEN [code |-> 200, body |-> "OTP verified", resetToken |-> reset_token,
          otps |-> [otp_storage EXCEPT ![email].reset_token = reset_token]]
    ELSE [code |-> 400, body |-> "Invalid OTP", resetToken |-> 0,
          otps |-> otp_storage]

\* reset_password without the deletion of the OTP entry at line 523
reset_password_keeping(email, reset_token, new_password, validate_result) ==
    LET same == [code |-> 0, users |-> mock_users, otps |-> otp_storage] IN
    IF email = "" \/ reset_token = 0 \/ new_password = ""
    THEN [same EXCEPT !.code = 400]
    ELSE IF validate_result = "raised"
    THEN [same EXCEPT !.code = 500]
    ELSE IF validate_result = "invalid"
    THEN [same EXCEPT !.code = 400]
    ELSE IF ~otp_storage[email].exists
    THEN [same EXCEPT !.code = 400]
    ELSE IF otp_storage[email].reset_token = 0
            \/ otp_storage[email].reset_token # reset_token
    THEN [same EXCEPT !.code = 400]
    ELSE IF mock_users[email].exists
    THEN [code |-> 200,
          users |-> [mock_users EXCEPT ![email].password = new_password],
          otps |-> otp_storage]
    ELSE [same EXCEPT !.code = 404]

\* src/app/firebase_config.py:495-529 reset_password; reset_token 0 and
\* new_password "" are missing fields, validate_result is what the call of
\* validate_password at line 507 gave
reset_password(email, reset_token, new_password, validate_result) ==
    LET same == [code |-> 0, users |-> mock_users, otps |-> otp_storage] IN
    IF email = "" \/ reset_token = 0 \/ new_password = ""
    THEN [same EXCEPT !.code = 400]
    ELSE IF validate_result = "raised"
    THEN [same EXCEPT !.code = 500]
    ELSE IF validate_result = "invalid"
    THEN [same EXCEPT !.code = 400]
    ELSE IF ~otp_storage[email].exists
    THEN [same EXCEPT !.code = 400]
    ELSE IF otp_storage[email].reset_token = 0
            \/ otp_storage[email].reset_token # reset_token
    THEN [same EXCEPT !.code = 400]
    ELSE IF mock_users[email].exists
    THEN [code |-> 200,
          users |-> [mock_users EXCEPT ![email].password = new_password],
          otps |-> [otp_storage EXCEPT ![email] = NoOtp]]
    ELSE [same EXCEPT !.code = 404]

\* history: nothing happened for an email since its last successful reset
NoHistory == [forgot |-> FALSE, otp |-> 0, verified |-> FALSE, token |-> 0]

\* no key 'user' in the session
NoSession == [user |-> "", role |-> ""]

\* src/app/firebase_config.py:368-429 login. A user created by a Google
\* login has password None, which no password of a request equals.
login(email, password, provider) ==
    LET same == [code |-> 0, users |-> mock_users, session |-> session] IN
    IF email = ""
    THEN [same EXCEPT !.code = 400]
    ELSE IF provider = "email" /\ password = ""
    THEN [same EXCEPT !.code = 400]
    ELSE IF provider = "google"
    THEN LET known == IF mock_users[email].exists
                      THEN mock_users
                      ELSE [mock_users EXCEPT ![email] = MockUser("None", "tenant")]
         IN  [code |-> 200, users |-> known,
              session |-> [user |-> email, role |-> known[email].role]]
    ELSE IF ~mock_users[email].exists \/ mock_users[email].password # password
    THEN [same EXCEPT !.code = 401]
    ELSE [code |-> 200, users |-> mock_users,
          session |-> [user |-> email, role |-> mock_users[email].role]]

\* src/app/firebase_config.py:309-366 register. role "" is a body without
\* the key role (the default 'tenant' of line 317); body_state tells whether
\* firstName and lastName are there and agreeToTerms is truthy;
\* validate_result is what the call of validate_password at line 328 gave
register(email, password, role, body_state, validate_result) ==
    LET same == [code |-> 0, users |-> mock_users, session |-> session]
        stored_role == IF role = "" THEN "tenant" ELSE role
    IN
    IF email = "" \/ password = "" \/ body_state = "missing_field"
    THEN [same EXCEPT !.code = 400]
    ELSE IF body_state = "no_agree"
    THEN [same EXCEPT !.code = 400]
    ELSE IF validate_result = "raised"
    THEN [same EXCEPT !.code = 500]
    ELSE IF validate_result = "invalid"
    THEN [same EXCEPT !.code = 400]
    ELSE IF mock_users[email].exists
    THEN [same EXCEPT !.code = 400]
    ELSE [code |-> 201,
          users |-> [mock_users EXCEPT ![email] = MockUser(password, stored_role)],
          session |-> [user |-> email, role |-> stored_role]]

\* src/main.py:224-291 register. api_key is whether FIREBASE_WEB_API_KEY is
\* set; sign_up is the outcome of the accounts:signUp call ("ok" with the
\* new account's localId local_id, "error" for a status other than 200,
\* "raised"); profile_write is whether building user_data (which reads
\* firebase_admin.db.SERVER_TIMESTAMP) and user_ref.set went through
main_register(local_id, api_key, sign_up, profile_write) ==
    IF ~api_key
    THEN [code |-> 200, role |-> "tenant", users |-> users]
    ELSE IF sign_up = "raised"
    THEN [code |-> 500, role |-> "", users |-> users]
    ELSE IF sign_up = "error"
    THEN [code |-> 400, role |-> "", users |-> users]
    ELSE IF ~profile_write
    THEN [code |-> 500, role |-> "", users |-> users]
    ELSE [code |-> 200, role |-> "tenant",
          users |-> [users EXCEPT ![local_id] =
                        [NoUser EXCEPT !.exists = TRUE, !.role = "tenant",
                                       !.email = "stored",
                                       !.created_at = "stored"]]]

\* src/app/firebase_config.py:531-534 logout
logout == [code |-> 200, session |-> NoSession]

(***************************************************************************)
(* Concurrent status updates: src/app/crud.py, src/app/dashboard.py        *)
(***************************************************************************)
\* the two requests in flight
Procs == {"A", "B"}
\* the maintenance request both of them name
ConcTenant == "t1"
ConcRequest == "r1"
DashPath == <<ConcTenant, ConcRequest>>
\* a node of maintenance_requests/{tenant_id}/{request_id}; "" is a missing
\* child
NoDashRequest == [status |-> "", updated_by |-> "", notes |-> FALSE]
\* a process that has not sent its request
IdleCall == [impl |-> "none", pc |-> "idle", status |-> "", who |-> "",
             notes |-> FALSE, code |-> 0]

\* src/app/crud.py:579-583 of update_maintenance_status: request_ref.get()
\* and the existence test, whose 404 is caught at line 612 and answered 500
CrudStatusReadStep(call, status, staff_id, notes) ==
    IF maintenance_requests[ConcRequest].exists
    THEN [call EXCEPT !.impl = "crud", !.pc = "read", !.status = status,
                      !.who = staff_id, !.notes = notes]
    ELSE [call EXCEPT !.impl = "crud", !.pc = "done", !.status = status,
                      !.who = staff_id, !.notes = notes, !.code = 500]

\* request_ref.child('status').set(value) at src/app/crud.py:585 storing
\* the value only while the status is the one the request was created with
SetStatusChild_first_wins(mr, request_id, value) ==
    IF mr[request_id].status \in {"pending", "submitted"}
    THEN [mr EXCEPT ![request_id] = [@ EXCEPT !.status = value]]
    ELSE mr

\* request_ref.child('status').set(value) at src/app/crud.py:585: an
\* unconditional write of one child
SetStatusChild(mr, request_id, value) ==
    [mr EXCEPT ![request_id] = [@ EXCEPT !.status = value]]

\* src/app/crud.py:585-586: status.value raises AttributeError for an argument
\* that is no member of MaintenanceStatus (caught at 612, answered 500);
\* otherwise the status child and then updated_at are set
CrudStatusWriteStep(call) ==
    IF call.status \notin MaintenanceStatus
    THEN [call |-> [call EXCEPT !.pc = "done", !.code = 500],
          mr |-> maintenance_requests, wrote |-> FALSE]
    ELSE [call |-> [call EXCEPT !.pc = "wrote"],
          mr |-> SetStatusChild(maintenance_requests, ConcRequest, call.status),
          wrote |-> TRUE]

\* src/app/crud.py:588-616: the update entry when notes are given, then the
\* lookup of MaintenanceStatus.RESOLVED at line 599, which raises
\* AttributeError on every call; line 612 answers 500
CrudStatusFinishStep(call) ==
    [call |-> [call EXCEPT !.pc = "done", !.code = 500],
     mr |-> [maintenance_requests EXCEPT ![ConcRequest] =
                [@ EXCEPT !.updates = IF call.notes THEN @ + 1 ELSE @]]]

\* src/app/dashboard.py:228-235 of update_maintenance_status: the session
\* test and the reading of the request body
DashStatusCheckStep(call, session_role, session_user, status, notes) ==
    IF session_user = "" \/ session_role \notin {"admin", "staff"}
    THEN [call EXCEPT !.impl = "dashboard", !.pc = "done", !.status = status,
                      !.who = session_user, !.notes = notes, !.code = 403]
    ELSE [call EXCEPT !.impl = "dashboard", !.pc = "checked", !.status = status,
                      !.who = session_user, !.notes = notes]

\* src/app/dashboard.py:237-249: one ref.update(...) of status, updated_at,
\* updated_by and, when given, notes; answered 200
DashStatusUpdateStep(call) ==
    [call |-> [call EXCEPT !.pc = "done", !.code = 200],
     node |-> [status |-> call.status, updated_by |-> call.who,
               notes |-> IF call.notes THEN TRUE ELSE dash_requests[DashPath].notes]]

(***************************************************************************)
(* User records: src/app/users.py, src/app/models.py                       *)
(***************************************************************************)
\* the keys a request body can carry: the three protected ones, two others,
\* and a path key naming a child of email
BodyKeys == {"uid", "email", "created_at", "name", "role", "email/x"}
\* request.json: NoBody when the request carries no JSON object
NoBody == [json |-> FALSE, keys |-> {}]
Body(keys) == [json |-> TRUE, keys |-> keys]

\* src/app/models.py:116-123 User.get: the stored node, or None when there is
\* none or the read raises (None is a record with exists = FALSE)
User_get(user_id, get_ok) ==
    IF get_ok /\ users[user_id].exists THEN users[user_id] ELSE NoUser

\* db_ref.child('users').child(user_id).update(updates): every key is written
\* with the value the body gave it ("new"; "admin" for role), creating the
\* node when there is none. A key holding "/" is a path below the node
\* (a multi-path update): "email/x" makes email an object with the child x.
UpdateNode(node, keys) ==
    [node EXCEPT
        !.exists = TRUE,
        !.uid = IF "uid" \in keys THEN "new" ELSE @,
        !.email = IF "email" \in keys THEN "new"
                  ELSE IF "email/x" \in keys THEN "object" ELSE @,
        !.created_at = IF "created_at" \in keys THEN "new" ELSE @,
        !.name = IF "name" \in keys THEN "new" ELSE @,
        !.role = IF "role" \in keys THEN "admin" ELSE @]

\* src/app/models.py:125-133 User.update: updated_at is added, the node
\* updated and True returned; an exception of the write is logged and False
\* returned
User_update(user_id, updates, update_ok) ==
    IF update_ok
    THEN [success |-> TRUE,
          users |-> [users EXCEPT ![user_id] = UpdateNode(@, updates)]]
    ELSE [success |-> FALSE, users |-> users]

\* src/app/users.py:69-109 update_user, after jwt_required. For a caller
\* other than the user, current_user.get at line 77 raises AttributeError
\* when User.get returned None; request.json that is no dict makes
\* updates.pop at line 85 raise; both are answered with 500 at line 105.
update_user(current_user_id, user_id, body, get_ok, update_ok) ==
    LET current_user == User_get(current_user_id, get_ok)
        updates == body.keys \ {"uid", "email", "created_at"}
        out == User_update(user_id, updates, update_ok)
    IN  IF current_user_id # user_id /\ ~current_user.exists
        THEN [code |-> 500, users |-> users]
        ELSE IF current_user_id # user_id /\ current_user.role # "admin"
        THEN [code |-> 403, users |-> users]
        ELSE IF ~body.json
        THEN [code |-> 500, users |-> users]
        ELSE IF out.success
        THEN [code |-> 200, users |-> out.users]
        ELSE [code |-> 400, users |-> out.users]

\* src/app/users.py:111-137 delete_user, after jwt_required: users.py never
\* binds db_ref, so the delete at line 126 raises NameError for an admin
delete_user(current_user_id, user_id, get_ok) ==
    LET current_user == User_get(current_user_id, get_ok) IN
    IF ~current_user.exists
    THEN [code |-> 500, users |-> users]
    ELSE IF current_user.role # "admin"
    THEN [code |-> 403, users |-> users]
    ELSE [code |-> 500, users |-> users]

Roles == [a1 |-> "admin", s1 |-> "staff", t1 |-> "tenant", t2 |-> "tenant"]

Init ==
    /\ users = [u \in Uids |->
                  IF u = "nobody" THEN NoUser
                  ELSE StoredUser(Roles[u])]
    /\ lease_info = [u \in Uids |-> NoLease]
    /\ tenant_requests = [u \in Uids |-> {}]
    /\ maintenance_requests = [r \in RequestIds |-> NoRequest]
    /\ notifications = [u \in Uids |-> 0]
    /\ rt_properties = {}
    /\ rt_units = <<>>
    /\ blobs = {}
    /\ storage_configured \in BOOLEAN
    /\ user_maint_photos = <<>>
    /\ payments = [u \in Uids |-> 0]
    /\ push_notifications = [u \in Uids |-> [n \in NotificationIds |-> "absent"]]
    /\ fs_properties = [d \in DocIds |-> NoDoc]
    /\ fs_submitted = [d \in DocIds |-> NoDoc]
    /\ mock_users = DemoUsers
    /\ otp_storage = [e \in Emails |-> NoOtp]
    /\ session = NoSession
    /\ reset_history = [e \in Emails |-> NoHistory]
    /\ inflight = [p \in Procs |-> IdleCall]
    /\ write_order = <<>>
    /\ dash_requests = (DashPath :> NoDashRequest)
    /\ response = [op |-> "none", code |-> 0]

\* src/app/fileupload.py:31 takes the bucket from firebase_admin.storage itself:
\* the upload routes do not read storage_bucket of firebase_init
InitUpload == Init /\ storage_configured

\* the database after tenant t1's lease for unit p1_1 was uploaded
InitMaint ==
    /\ users = [u \in Uids |->
                  IF u = "nobody" THEN NoUser
                  ELSE StoredUser(Roles[u])]
    /\ lease_info = [u \in Uids |->
                  IF u = "t1" THEN [exists |-> TRUE, unit_id |-> Unit_p1_1] ELSE NoLease]
    /\ tenant_requests = [u \in Uids |-> {}]
    /\ maintenance_requests = [r \in RequestIds |-> NoRequest]
    /\ notifications = [u \in Uids |-> 0]
    /\ rt_properties = {}
    /\ rt_units = OccupyLeasedUnit(<<>>, Unit_p1_1)
    /\ blobs = {[folder |-> "leases", owner |-> "t1", uuid |-> 0, name |-> LeaseFilename]}
    /\ storage_configured = TRUE
    /\ user_maint_photos = <<>>
    /\ payments = [u \in Uids |-> 0]
    /\ push_notifications = [u \in Uids |-> [n \in NotificationIds |-> "absent"]]
    /\ fs_properties = [d \in DocIds |-> NoDoc]
    /\ fs_submitted = [d \in DocIds |-> NoDoc]
    /\ mock_users = DemoUsers
    /\ otp_storage = [e \in Emails |-> NoOtp]
    /\ session = NoSession
    /\ reset_history = [e \in Emails |-> NoHistory]
    /\ inflight = [p \in Procs |-> IdleCall]
    /\ write_order = <<>>
    /\ dash_requests = (DashPath :> NoDashRequest)
    /\ response = [op |-> "none", code |-> 0]

(***************************************************************************)
(* Maintenance actions                                                     *)
(***************************************************************************)
CreateMaintenanceRequest ==
    \E user_id \in Tenants, request_id \in RequestIds :
        LET out == auth_create_maintenance_request(user_id, request_id) IN
        /\ ~maintenance_requests[request_id].exists
        /\ maintenance_requests' = out.mr
        /\ tenant_requests' = out.tr
        /\ response' = [op |-> "create_maintenance_request", code |-> out.code,
                        request_id |-> request_id, who |-> user_id, arg |-> ""]
        /\ UNCHANGED <<users, lease_info, blobs, notifications, leaseVars, uploadVars, accessVars, propVars,
                       forgotVars, concVars>>

CreateMaintenanceRecord ==
    \E user_id \in {"t2"}, request_id \in RequestIds :
        LET out == CRUDMaintenance_create(user_id, Unit_p1_1, request_id) IN
        /\ ~maintenance_requests[request_id].exists
        /\ maintenance_requests' = out.mr
        /\ response' = [op |-> "CRUDMaintenance.create", code |-> out.code,
                        request_id |-> request_id, who |-> user_id, arg |-> ""]
        /\ UNCHANGED <<users, lease_info, blobs, tenant_requests, notifications, leaseVars, uploadVars, accessVars, propVars,
                       forgotVars, concVars>>

AssignMaintenanceTask ==
    \E request_id \in RequestIds, staff_id \in StaffArgs, priority \in Priorities :
        LET out == assign_maintenance_task(request_id, staff_id, priority) IN
        /\ maintenance_requests[request_id].updates < MaxUpdates
        /\ notifications[staff_id] < MaxNotifications
        /\ maintenance_requests' = out.mr
        /\ notifications' = out.notifications
        /\ response' = [op |-> "assign_maintenance_task", code |-> out.code,
                        request_id |-> request_id, who |-> staff_id, arg |-> priority]
        /\ UNCHANGED <<users, lease_info, blobs, tenant_requests, leaseVars, uploadVars, accessVars, propVars,
                       forgotVars, concVars>>

UpdateMaintenanceStatus ==
    \E request_id \in RequestIds, status \in StatusArgs,
       staff_id \in {"s1"}, notes \in BOOLEAN :
        LET out == update_maintenance_status(request_id, status, staff_id, notes) IN
        /\ notes => maintenance_requests[request_id].updates < MaxUpdates
        /\ \A u \in Uids : notifications[u] < MaxNotifications
        /\ maintenance_requests' = out.mr
        /\ notifications' = out.notifications
        /\ response' = [op |-> "update_maintenance_status", code |-> out.code,
                        request_id |-> request_id, who |-> staff_id, arg |-> status]
        /\ UNCHANGED <<users, lease_info, blobs, tenant_requests, leaseVars, uploadVars, accessVars, propVars,
                       forgotVars, concVars>>

UpdateMaintenanceRequest ==
    \E current_user_id \in {"t1", "s1"}, request_id \in RequestIds,
       body_status \in BodyStatusArgs :
        LET out == update_maintenance_request(current_user_id, request_id, body_status) IN
        /\ maintenance_requests' = out.mr
        /\ response' = [op |-> "update_maintenance_request", code |-> out.code,
                        request_id |-> request_id, who |-> current_user_id,
                        arg |-> body_status]
        /\ UNCHANGED <<users, lease_info, blobs, tenant_requests, notifications, leaseVars, uploadVars, accessVars, propVars,
                       forgotVars, concVars>>

NextMaint ==
    \/ CreateMaintenanceRequest
    \/ CreateMaintenanceRecord
    \/ AssignMaintenanceTask
    \/ UpdateMaintenanceStatus
    \/ UpdateMaintenanceRequest

SpecMaint == InitMaint /\ [][NextMaint]_vars

(***************************************************************************)
(* Property, unit and lease actions                                        *)
(***************************************************************************)
CreateProperty ==
    \E property_id \in PropertyIds \ rt_properties :
        LET out == Property_create(property_id) IN
        /\ rt_properties' = out.props
        /\ response' = [op |-> "Property.create", code |-> out.code,
                        property_id |-> property_id]
        /\ UNCHANGED <<users, lease_info, blobs, maintVars, rt_units, storage_configured, uploadVars, accessVars, propVars,
                       forgotVars, concVars>>

CrudCreateProperty ==
    \E property_id \in PropertyIds \ rt_properties :
        LET out == create_property_crud(property_id) IN
        /\ rt_properties' = out.props
        /\ response' = [op |-> "create_property", code |-> out.code,
                        property_id |-> property_id]
        /\ UNCHANGED <<users, lease_info, blobs, maintVars, rt_units, storage_configured, uploadVars, accessVars, propVars,
                       forgotVars, concVars>>

AddUnitToProperty ==
    \E property_id \in PropertyIds, unit_number \in UnitNumbers :
        LET out == add_unit_to_property(property_id, unit_number) IN
        /\ rt_units' = out.units
        /\ response' = [op |-> "add_unit_to_property", code |-> out.code,
                        property_id |-> property_id, unit_id |-> out.unit_id]
        /\ UNCHANGED <<users, lease_info, blobs, maintVars, rt_properties, storage_configured, uploadVars, accessVars, propVars,
                       forgotVars, concVars>>

UploadLeaseDocument ==
    \E tenant_id \in Tenants, filename \in Filenames, unit_id \in LeaseUnitIds :
        LET out == upload_lease_document(tenant_id, filename, unit_id) IN
        /\ blobs' = out.blobs
        /\ lease_info' = out.lease
        /\ rt_units' = out.units
        /\ response' = [op |-> "upload_lease_document", code |-> out.code,
                        tenant_id |-> tenant_id, unit_id |-> unit_id]
        /\ UNCHANGED <<users, maintVars, rt_properties, storage_configured, uploadVars, accessVars, propVars,
                       forgotVars, concVars>>

NextLease ==
    \/ CreateProperty
    \/ CrudCreateProperty
    \/ AddUnitToProperty
    \/ UploadLeaseDocument

SpecLease == Init /\ [][NextLease]_vars

(***************************************************************************)
(* File upload actions                                                     *)
(***************************************************************************)
UploadFilenames ==
    { <<"a", ".", "p", "n", "g">>, <<"a", ".", "P", "N", "G">>,
      <<"a", ".", "p", "d", "f">>, <<"a", ".", "z", "i", "p">>,
      <<"a", ".", "e", "x", "e">>, <<"a", ".", "p", "n", "g", ".", "e", "x", "e">>,
      <<"a">>, <<"a", ".">>, <<>> }
FileTypes == {"images", "documents", "archives", "videos"}
StorageOutcomes == {"ok", "upload_failed", "public_failed"}

UploadFile ==
    \E has_file \in BOOLEAN, filename \in UploadFilenames, user_id \in {"t1", ""},
       file_type \in FileTypes, outcome \in StorageOutcomes :
        LET out == upload_file(has_file, filename, user_id, file_type, "general",
                               outcome) IN
        /\ Cardinality(blobs) < MaxBlobs
        /\ ~has_file => (filename = <<>> /\ outcome = "ok")
        /\ blobs' = out.blobs
        /\ response' = [op |-> "upload_file", code |-> out.code,
                        has_file |-> has_file, filename |-> filename,
                        file_type |-> file_type, user_id |-> user_id]
        /\ UNCHANGED <<users, lease_info, maintVars, leaseVars, uploadVars, accessVars, propVars,
                       forgotVars, concVars>>

UploadLeaseRoute ==
    \E has_file \in BOOLEAN, filename \in UploadFilenames,
       user_id \in {"t1", "nobody"}, outcome \in StorageOutcomes :
        LET out == fileupload_upload_lease_document(user_id, has_file, filename,
                                                    outcome) IN
        /\ Cardinality(blobs) < MaxBlobs
        /\ ~has_file => (filename = <<>> /\ outcome = "ok")
        /\ blobs' = out.blobs
        /\ users' = out.users
        /\ response' = [op |-> "upload_lease_route", code |-> out.code,
                        has_file |-> has_file, filename |-> filename,
                        file_type |-> "documents", user_id |-> user_id]
        /\ UNCHANGED <<lease_info, maintVars, leaseVars, uploadVars, accessVars, propVars,
                       forgotVars, concVars>>

UploadMaintenancePhoto ==
    \E has_file \in BOOLEAN, filename \in UploadFilenames, user_id \in {"t1"},
       request_id \in {"r1", ""}, outcome \in StorageOutcomes :
        LET out == upload_maintenance_photo(user_id, has_file, filename,
                                            request_id, outcome) IN
        /\ Cardinality(blobs) < MaxBlobs
        /\ ~has_file => (filename = <<>> /\ outcome = "ok")
        /\ blobs' = out.blobs
        /\ user_maint_photos' = out.photos
        /\ response' = [op |-> "upload_maintenance_photo", code |-> out.code,
                        has_file |-> has_file, filename |-> filename,
                        file_type |-> "images", user_id |-> user_id]
        /\ UNCHANGED <<users, lease_info, maintVars, leaseVars, accessVars, propVars,
                       forgotVars, concVars>>

NextUpload ==
    \/ UploadFile
    \/ UploadLeaseRoute
    \/ UploadMaintenancePhoto

SpecUpload == InitUpload /\ [][NextUpload]_vars

(***************************************************************************)
(* Claims about maintenance requests                                       *)
(***************************************************************************)
OtherNotificationsKept(u) ==
    \A v \in Uids \ {u} : notifications'[v] = notifications[v]

\* C1: for an existing request r and a user s whose stored role is staff,
\* assign_maintenance_task(r, s) ends with r in_progress and assigned to s,
\* and s (and nobody else) has exactly one notification more.
C1_AssignNotifiesStaff ==
    [][ LET r == response'.request_id
            s == response'.who
        IN  ( /\ response'.op = "assign_maintenance_task"
              /\ maintenance_requests[r].exists
              /\ users[s].exists /\ users[s].role = "staff" )
            => ( /\ maintenance_requests'[r].status = "in_progress"
                 /\ maintenance_requests'[r].assigned_to = s
                 /\ notifications'[s] = notifications[s] + 1
                 /\ OtherNotificationsKept(s) ) ]_vars

\* C2: a status update that marks an existing request r "resolved" stores
\* that status and adds exactly one notification for r's tenant; an update to
\* a non-terminal status adds no notification.
C2_ResolvedNotifiesTenant ==
    [][ LET r == response'.request_id
            t == maintenance_requests[r].tenant_id
        IN  ( /\ response'.op = "update_maintenance_status"
              /\ maintenance_requests[r].exists
              /\ t \in Uids )
            => ( /\ response'.arg = "resolved" =>
                        /\ maintenance_requests'[r].status = "resolved"
                        /\ notifications'[t] = notifications[t] + 1
                        /\ OtherNotificationsKept(t)
                 /\ response'.arg \in {"pending", "in_progress"} =>
                        notifications' = notifications ) ]_vars

\* the order submitted -> in_progress -> resolved/closed; pending, completed
\* and cancelled are the names src/app/models.py gives the first and last stage
StatusRank(status) ==
    CASE status \in {"submitted", "pending"} -> 0
      [] status = "in_progress" -> 1
      [] OTHER -> 2

\* C10: the stored status of a maintenance request only moves forward in the
\* order submitted -> in_progress -> resolved/closed, and never leaves the
\* last stage.
C10_StatusOnlyForward ==
    [][ \A r \in RequestIds :
          maintenance_requests[r].exists =>
            /\ maintenance_requests'[r].exists
            /\ StatusRank(maintenance_requests'[r].status)
                  >= StatusRank(maintenance_requests[r].status)
            /\ StatusRank(maintenance_requests[r].status) = 2 =>
                  maintenance_requests'[r].status = maintenance_requests[r].status
      ]_vars

(***************************************************************************)
(* Claims about units and leases                                           *)
(***************************************************************************)
\* the paths of the units add_unit_to_property stored under the id unit_id
CreatedUnitPaths(unit_id) ==
    {path \in DOMAIN rt_units :
        rt_units[path].id = unit_id /\ path[2] = unit_id /\ unit_id # <<>>}

\* C3: a successful upload_lease_document whose lease_info.unit_id is the id
\* of a unit created by add_unit_to_property leaves that unit occupied.
C3_LeaseUploadOccupiesUnit ==
    [][ ( /\ response'.op = "upload_lease_document"
          /\ response'.code = 200 )
        => \A path \in CreatedUnitPaths(response'.unit_id) :
              rt_units'[path].status = "occupied" ]_vars

(***************************************************************************)
(* Public property list actions                                            *)
(***************************************************************************)
SearchParams ==
    {NoParam, Param(<<>>), Param(<<"v", "i", "e", "w">>), Param(<<"V", "I", "E", "W">>),
     Param(<<"k", "a", "r", "e", "n">>), Param(<<"z", "z", "z">>)}
CityParams ==
    {NoParam, Param(<<>>), Param(<<"N", "a", "i", "r", "o", "b", "i">>),
     Param(<<"n", "a", "i", "r", "o", "b", "i">>),
     Param(<<"M", "o", "m", "b", "a", "s", "a">>)}

GetPublicProperties ==
    \E search \in SearchParams, city \in CityParams, db_state \in DbStates :
        LET out == get_public_properties(search, city, db_state) IN
        /\ response' = [op |-> "get_public_properties", code |-> out.code,
                        search |-> search, city |-> city, db_state |-> db_state,
                        is_list |-> out.is_list, body |-> out.body]
        /\ UNCHANGED <<users, lease_info, blobs, maintVars, leaseVars, uploadVars,
                       accessVars, propVars,
                       forgotVars, concVars>>

NextPublic ==
    \/ CreateProperty
    \/ GetPublicProperties

SpecPublic == Init /\ [][NextPublic]_vars

(***************************************************************************)
(* Concurrent status update actions: each step of a call is one action, so *)
(* that the steps of the two calls interleave in every order               *)
(***************************************************************************)
\* the status values a body of the dashboard route carries; "" is null
DashStatusArgs == {"in_progress", "completed", "resolved", ""}
\* the session of a dashboard caller: a logged-in user or none
SessionUsers == {"a1", "s1", "t1", ""}

\* the response of a call that has ended, else the last response
ConcAnswer(p, call) ==
    IF call.pc = "done"
    THEN [op |-> "status_update_" \o call.impl, code |-> call.code, proc |-> p,
          arg |-> call.status]
    ELSE response

CrudStatusRead ==
    \E p \in Procs, status \in StatusArgs, notes \in BOOLEAN :
        LET call == CrudStatusReadStep(inflight[p], status, "s1", notes) IN
        /\ inflight[p].pc = "idle"
        /\ inflight' = [inflight EXCEPT ![p] = call]
        /\ response' = ConcAnswer(p, call)
        /\ UNCHANGED <<users, lease_info, blobs, maintVars, leaseVars, uploadVars,
                       accessVars, propVars, forgotVars, write_order,
                       dash_requests>>

CrudStatusWrite ==
    \E p \in Procs :
        LET out == CrudStatusWriteStep(inflight[p]) IN
        /\ inflight[p].impl = "crud" /\ inflight[p].pc = "read"
        /\ inflight' = [inflight EXCEPT ![p] = out.call]
        /\ maintenance_requests' = out.mr
        /\ write_order' = IF out.wrote THEN Append(write_order, p) ELSE write_order
        /\ response' = ConcAnswer(p, out.call)
        /\ UNCHANGED <<users, lease_info, blobs, tenant_requests, notifications,
                       leaseVars, uploadVars, accessVars, propVars, forgotVars,
                       dash_requests>>

CrudStatusFinish ==
    \E p \in Procs :
        LET out == CrudStatusFinishStep(inflight[p]) IN
        /\ inflight[p].impl = "crud" /\ inflight[p].pc = "wrote"
        /\ inflight' = [inflight EXCEPT ![p] = out.call]
        /\ maintenance_requests' = out.mr
        /\ response' = ConcAnswer(p, out.call)
        /\ UNCHANGED <<users, lease_info, blobs, tenant_requests, notifications,
                       leaseVars, uploadVars, accessVars, propVars, forgotVars,
                       write_order, dash_requests>>

DashStatusCheck ==
    \E p \in Procs, session_user \in SessionUsers, status \in DashStatusArgs,
       notes \in BOOLEAN :
        LET session_role == IF session_user = "" THEN "" ELSE Roles[session_user]
            call == DashStatusCheckStep(inflight[p], session_role, session_user,
                                        status, notes)
        IN
        /\ inflight[p].pc = "idle"
        /\ inflight' = [inflight EXCEPT ![p] = call]
        /\ response' = ConcAnswer(p, call)
        /\ UNCHANGED <<users, lease_info, blobs, maintVars, leaseVars, uploadVars,
                       accessVars, propVars, forgotVars, write_order,
                       dash_requests>>

DashStatusUpdate ==
    \E p \in Procs :
        LET out == DashStatusUpdateStep(inflight[p]) IN
        /\ inflight[p].impl = "dashboard" /\ inflight[p].pc = "checked"
        /\ inflight' = [inflight EXCEPT ![p] = out.call]
        /\ dash_requests' = [dash_requests EXCEPT ![DashPath] = out.node]
        /\ write_order' = Append(write_order, p)
        /\ response' = ConcAnswer(p, out.call)
        /\ UNCHANGED <<users, lease_info, blobs, maintVars, leaseVars, uploadVars,
                       accessVars, propVars, forgotVars>>

NextConc ==
    \/ CrudStatusRead
    \/ CrudStatusWrite
    \/ CrudStatusFinish
    \/ DashStatusCheck
    \/ DashStatusUpdate


(***************************************************************************)
(* Password reset actions                                                  *)
(***************************************************************************)
\* the passwords a request can carry; "" is a missing password
Passwords == {"", "Admin@123", "Staff@123", "Tenant@123", "New@4567"}
Providers == {"email", "google"}
\* the emails of the password reset requests: a demo user, an email that is
\* no key of mock_users at import, a missing email
ResetEmails == {"tenant@example.com", "new@example.com", ""}
\* the newPassword values of a reset request
NewPasswords == {"", "New@4567"}

Login ==
    \E email \in Emails, password \in Passwords, provider \in Providers :
        LET out == login(email, password, provider) IN
        /\ mock_users' = out.users
        /\ session' = out.session
        /\ response' = [op |-> "login", code |-> out.code, email |-> email,
                        password |-> password, provider |-> provider]
        /\ UNCHANGED <<users, lease_info, blobs, maintVars, leaseVars, uploadVars,
                       accessVars, propVars, otp_storage, reset_history, concVars>>

Logout ==
    /\ session' = logout.session
    /\ response' = [op |-> "logout", code |-> logout.code]
    /\ UNCHANGED <<users, lease_info, blobs, maintVars, leaseVars, uploadVars,
                   accessVars, propVars, mock_users, otp_storage, reset_history,
                   concVars>>

ForgotPassword ==
    \E email \in ResetEmails, otp \in Otps, send_result \in SendResults :
        LET out == forgot_password(email, otp, send_result) IN
        /\ otp_storage' = out.otps
        /\ reset_history' =
              IF email = "" THEN reset_history
              ELSE [reset_history EXCEPT ![email] =
                       [forgot |-> TRUE,
                        otp |-> IF mock_users[email].exists THEN otp ELSE 0,
                        verified |-> FALSE, token |-> 0]]
        /\ response' = [op |-> "forgot_password", code |-> out.code,
                        body |-> out.body, email |-> email, otp |-> otp,
                        send_result |-> send_result]
        /\ UNCHANGED <<users, lease_info, blobs, maintVars, leaseVars, uploadVars,
                       accessVars, propVars, mock_users, session, concVars>>

\* the clock passes the expiry of a stored OTP: from now on
\* datetime.now() > otp_data["expiry"] at src/app/firebase_config.py:479
ExpiryPasses ==
    \E email \in ResetEmails :
        /\ otp_storage[email].exists
        /\ ~otp_storage[email].expired
        /\ otp_storage' = [otp_storage EXCEPT ![email].expired = TRUE]
        /\ response' = [op |-> "expiry_passes", code |-> 0, email |-> email]
        /\ UNCHANGED <<users, lease_info, blobs, maintVars, leaseVars, uploadVars,
                       accessVars, propVars, mock_users, session, reset_history,
                       concVars>>

VerifyOtp ==
    \E email \in ResetEmails, otp \in Otps \cup {0}, reset_token \in Tokens :
        LET out == verify_otp(email, otp, reset_token) IN
        /\ otp_storage' = out.otps
        /\ reset_history' =
              IF out.code = 200
              THEN [reset_history EXCEPT
                       ![email].verified = (otp = reset_history[email].otp),
                       ![email].token = out.resetToken]
              ELSE reset_history
        /\ response' = [op |-> "verify_otp", code |-> out.code,
                        body |-> out.body, email |-> email, otp |-> otp,
                        resetToken |-> out.resetToken]
        /\ UNCHANGED <<users, lease_info, blobs, maintVars, leaseVars, uploadVars,
                       accessVars, propVars, mock_users, session, concVars>>

ResetPassword ==
    \E email \in ResetEmails, reset_token \in Tokens \cup {0},
       new_password \in NewPasswords, validate_result \in ValidateResults :
        LET out == reset_password(email, reset_token, new_password, validate_result) IN
        /\ mock_users' = out.users
        /\ otp_storage' = out.otps
        /\ reset_history' =
              IF out.code = 200
              THEN [reset_history EXCEPT ![email] = NoHistory]
              ELSE reset_history
        /\ response' = [op |-> "reset_password", code |-> out.code,
                        email |-> email, resetToken |-> reset_token,
                        newPassword |-> new_password,
                        validate_result |-> validate_result]
        /\ UNCHANGED <<users, lease_info, blobs, maintVars, leaseVars, uploadVars,
                       accessVars, propVars, session, concVars>>

NextForgot ==
    \/ Login
    \/ Logout
    \/ ForgotPassword

SpecForgot == Init /\ [][NextForgot]_vars

NextReset ==
    \/ ForgotPassword
    \/ ExpiryPasses
    \/ VerifyOtp
    \/ ResetPassword

SpecReset == Init /\ [][NextReset]_vars

(***************************************************************************)
(* User record actions                                                     *)
(***************************************************************************)
\* the identities jwt_required lets through, and the user ids of the path
Callers == {"a1", "t1", "t2", "nobody"}
TargetUsers == {"t1", "nobody"}
Bodies ==
    {NoBody, Body({"uid", "email", "created_at"}), Body({"role"}),
     Body({"email/x"}), Body({"uid", "email", "created_at", "role"})}
\* the database during a request: answering, failing the reads, or failing
\* the write
UsersDbStates == {"ok", "get_fails", "update_fails"}

UpdateUser ==
    \E current_user_id \in Callers, user_id \in TargetUsers, body \in Bodies,
       db_state \in UsersDbStates :
        LET get_ok == db_state # "get_fails"
            update_ok == db_state # "update_fails"
            out == update_user(current_user_id, user_id, body, get_ok, update_ok)
        IN
        /\ users' = out.users
        /\ response' = [op |-> "update_user", code |-> out.code,
                        who |-> current_user_id, user_id |-> user_id,
                        body |-> body, get_ok |-> get_ok]
        /\ UNCHANGED <<lease_info, blobs, maintVars, leaseVars, uploadVars,
                       accessVars, propVars, forgotVars, concVars>>

DeleteUser ==
    \E current_user_id \in Callers, user_id \in TargetUsers, get_ok \in BOOLEAN :
        LET out == delete_user(current_user_id, user_id, get_ok) IN
        /\ users' = out.users
        /\ response' = [op |-> "delete_user", code |-> out.code,
                        who |-> current_user_id, user_id |-> user_id,
                        get_ok |-> get_ok]
        /\ UNCHANGED <<lease_info, blobs, maintVars, leaseVars, uploadVars,
                       accessVars, propVars, forgotVars, concVars>>

NextUsers ==
    \/ UpdateUser
    \/ DeleteUser

SpecUsers == Init /\ [][NextUsers]_vars

(***************************************************************************)
(* Registration actions                                                    *)
(***************************************************************************)
\* the emails and roles of a registration body; role "" is a body without the
\* key. The password is always the same one: a body without a password is
\* answered like one without firstName (body_state "missing_field").
RegisterEmails == {"tenant@example.com", "new@example.com"}
RegisterPassword == "New@4567"
RegisterRoles == {"", "admin"}
BodyStates == {"complete", "missing_field", "no_agree"}
SignUpResults == {"ok", "error", "raised"}

Register ==
    \E email \in RegisterEmails, role \in RegisterRoles,
       body_state \in BodyStates, validate_result \in ValidateResults :
        LET out == register(email, RegisterPassword, role, body_state,
                            validate_result) IN
        /\ mock_users' = out.users
        /\ session' = out.session
        /\ response' = [op |-> "register", code |-> out.code, email |-> email,
                        role |-> role]
        /\ UNCHANGED <<users, lease_info, blobs, maintVars, leaseVars, uploadVars,
                       accessVars, propVars, otp_storage, reset_history, concVars>>

\* the localId of a new account is a uid without a record
MainRegister ==
    \E local_id \in Uids, api_key \in BOOLEAN, sign_up \in SignUpResults,
       profile_write \in BOOLEAN :
        LET out == main_register(local_id, api_key, sign_up, profile_write) IN
        /\ ~users[local_id].exists
        /\ users' = out.users
        /\ response' = [op |-> "main_register", code |-> out.code,
                        role |-> out.role, user_id |-> local_id]
        /\ UNCHANGED <<lease_info, blobs, maintVars, leaseVars, uploadVars,
                       accessVars, propVars, forgotVars, concVars>>

NextRoles ==
    \/ Register
    \/ MainRegister
    \/ UpdateUser

SpecRoles == Init /\ [][NextRoles]_vars

(***************************************************************************)
(* Firestore property actions                                              *)
(***************************************************************************)
\* the least request body create_property accepts
BaseProperty ==
    [name |-> JStr("A"), address |-> JStr("X"), type |-> JStr("apartment"),
     totalUnits |-> JInt("3")]
\* d without key
Without(d, key) == [f \in (DOMAIN d) \ {key} |-> d[f]]

\* the request bodies of POST /: the required fields, with an optional
\* description, a count sent as text, a count that is no numeral, a missing
\* required field, and fields the route does not copy
SubmittedProperties ==
    { BaseProperty,
      Merge(BaseProperty, [description |-> JStr("d")]),
      Merge(BaseProperty, [totalUnits |-> JStr("5")]),
      Merge(BaseProperty, [totalUnits |-> JStr("x")]),
      Without(BaseProperty, "name"),
      Without(BaseProperty, "totalUnits"),
      Merge(BaseProperty, [status |-> JStr("inactive")]),
      Merge(BaseProperty, [amenities |-> JList("pool")]) }

\* the request bodies of PUT /<property_id>
PropertyUpdates ==
    { [description |-> JStr("e")],
      [totalUnits |-> JStr("x")],
      [status |-> JStr("inactive"), totalUnits |-> JStr("5")] }

FsCreateProperty ==
    \E data \in SubmittedProperties, doc_id \in DocIds, now \in Times :
        LET out == create_property(data, doc_id, now) IN
        /\ ~fs_properties[doc_id].exists
        /\ fs_properties' = out.docs
        /\ fs_submitted' = IF out.code = 201
                           THEN [fs_submitted EXCEPT ![doc_id] =
                                    [exists |-> TRUE, data |-> data]]
                           ELSE fs_submitted
        /\ response' = [op |-> "create_property", code |-> out.code,
                        property_id |-> doc_id, body |-> out.body]
        /\ UNCHANGED <<users, lease_info, blobs, maintVars, leaseVars, uploadVars,
                       accessVars,
                       forgotVars, concVars>>

FsGetProperty ==
    \E property_id \in DocIds :
        LET out == get_property(property_id) IN
        /\ response' = [op |-> "get_property", code |-> out.code,
                        property_id |-> property_id, body |-> out.body]
        /\ UNCHANGED <<users, lease_info, blobs, maintVars, leaseVars, uploadVars,
                       accessVars, propVars,
                       forgotVars, concVars>>

FsUpdateProperty ==
    \E property_id \in DocIds, data \in PropertyUpdates, now \in {<<"T2", "T2">>} :
        LET out == update_property(property_id, data, now) IN
        /\ fs_properties' = out.docs
        /\ fs_submitted' = IF out.code = 200
                           THEN [fs_submitted EXCEPT ![property_id] = NoDoc]
                           ELSE fs_submitted
        /\ response' = [op |-> "update_property", code |-> out.code,
                        property_id |-> property_id, body |-> EmptyDict]
        /\ UNCHANGED <<users, lease_info, blobs, maintVars, leaseVars, uploadVars,
                       accessVars,
                       forgotVars, concVars>>

FsDeleteProperty ==
    \E property_id \in DocIds :
        LET out == delete_property(property_id) IN
        /\ fs_properties' = out.docs
        /\ fs_submitted' = IF out.code = 200
                           THEN [fs_submitted EXCEPT ![property_id] = NoDoc]
                           ELSE fs_submitted
        /\ response' = [op |-> "delete_property", code |-> out.code,
                        property_id |-> property_id, body |-> EmptyDict]
        /\ UNCHANGED <<users, lease_info, blobs, maintVars, leaseVars, uploadVars,
                       accessVars,
                       forgotVars, concVars>>

NextProp ==
    \/ FsCreateProperty
    \/ FsGetProperty
    \/ FsUpdateProperty
    \/ FsDeleteProperty

\* the property routes touch no blob: the bucket is taken as configured
InitProp == Init /\ storage_configured

SpecProp == InitProp /\ [][NextProp]_vars

(***************************************************************************)
(* Requests to the protected routes                                        *)
(***************************************************************************)
\* the Authorization headers a request may carry
Headers ==
    { NoHeader,
      Header(<<"B", "a", "s", "i", "c", " ", "t">>),
      Header(<<"B", "e", "a", "r", "e", "r">>),
      Bearer(<<>>),
      Bearer(<<"x">>),
      Bearer(<<"t">>), Bearer(<<"u">>), Bearer(<<"s">>), Bearer(<<"a">>),
      Bearer(<<"g">>),
      Bearer(<<"t", " ", "j">>),
      Bearer(<<" ", "t">>),
      Header(<<"b", "e", "a", "r", "e", "r", " ", "t">>) }
RejectCodes == {401, 403}

\* the response of a request to a protected route
Answer(op, header, out) ==
    [op |-> op, code |-> out.code, header |-> header, trace |-> out.trace]

TokenRequiredRoute ==
    \E header \in Headers :
        /\ response' = Answer("token_required", header, token_required(header))
        /\ UNCHANGED <<users, lease_info, blobs, maintVars, leaseVars, uploadVars,
                       accessVars, propVars,
                       forgotVars, concVars>>

\* the routes of main.py: db_ok tells whether the database calls succeed
GetUserDashboard ==
    \E header \in Headers, reject_code \in RejectCodes, db_ok \in BOOLEAN :
        LET current == get_current_user(header, reject_code) IN
        /\ response' = Answer("get_user_dashboard", header,
                              Depends_get_current_user(current,
                                  get_user_dashboard(current.user, db_ok)))
        /\ UNCHANGED <<users, lease_info, blobs, maintVars, leaseVars, uploadVars,
                       accessVars, propVars,
                       forgotVars, concVars>>

GetStaffDashboard ==
    \E header \in Headers, reject_code \in RejectCodes, db_ok \in BOOLEAN :
        LET current == get_current_user(header, reject_code) IN
        /\ response' = Answer("get_staff_dashboard", header,
                              Depends_get_current_user(current,
                                  get_staff_dashboard(current.user, db_ok)))
        /\ UNCHANGED <<users, lease_info, blobs, maintVars, leaseVars, uploadVars,
                       accessVars, propVars,
                       forgotVars, concVars>>

GetAdminDashboard ==
    \E header \in Headers, reject_code \in RejectCodes, db_ok \in BOOLEAN :
        LET current == get_current_user(header, reject_code) IN
        /\ response' = Answer("get_admin_dashboard", header,
                              Depends_get_current_user(current,
                                  get_admin_dashboard(current.user, db_ok)))
        /\ UNCHANGED <<users, lease_info, blobs, maintVars, leaseVars, uploadVars,
                       accessVars, propVars,
                       forgotVars, concVars>>

MainCreateMaintenanceRequest ==
    \E header \in Headers, reject_code \in RejectCodes, db_ok \in BOOLEAN :
        LET current == get_current_user(header, reject_code) IN
        /\ response' = Answer("main_create_maintenance_request", header,
                              Depends_get_current_user(current,
                                  main_create_maintenance_request(current.user, db_ok)))
                        @@ [db_ok |-> db_ok]
        /\ UNCHANGED <<users, lease_info, blobs, maintVars, leaseVars, uploadVars,
                       accessVars, propVars,
                       forgotVars, concVars>>

MainGetMaintenanceRequests ==
    \E header \in Headers, reject_code \in RejectCodes, db_ok \in BOOLEAN :
        LET current == get_current_user(header, reject_code) IN
        /\ response' = Answer("main_get_maintenance_requests", header,
                              Depends_get_current_user(current,
                                  main_get_maintenance_requests(current.user, db_ok)))
        /\ UNCHANGED <<users, lease_info, blobs, maintVars, leaseVars, uploadVars,
                       accessVars, propVars,
                       forgotVars, concVars>>

MainCreateProperty ==
    \E header \in Headers, reject_code \in RejectCodes, db_ok \in BOOLEAN :
        LET current == get_current_user(header, reject_code) IN
        /\ response' = Answer("main_create_property", header,
                              Depends_get_current_user(current,
                                  main_create_property(current.user, db_ok)))
        /\ UNCHANGED <<users, lease_info, blobs, maintVars, leaseVars, uploadVars,
                       accessVars, propVars,
                       forgotVars, concVars>>

MainGetPayments ==
    \E header \in Headers, reject_code \in RejectCodes, db_ok \in BOOLEAN :
        LET current == get_current_user(header, reject_code) IN
        /\ response' = Answer("main_get_payments", header,
                              Depends_get_current_user(current,
                                  main_get_payments(current.user, db_ok)))
        /\ UNCHANGED <<users, lease_info, blobs, maintVars, leaseVars, uploadVars,
                       accessVars, propVars,
                       forgotVars, concVars>>

GetTenants ==
    \E header \in Headers, reject_code \in RejectCodes, db_ok \in BOOLEAN :
        LET current == get_current_user(header, reject_code) IN
        /\ response' = Answer("get_tenants", header,
                              Depends_get_current_user(current,
                                  get_tenants(current.user, db_ok)))
        /\ UNCHANGED <<users, lease_info, blobs, maintVars, leaseVars, uploadVars,
                       accessVars, propVars,
                       forgotVars, concVars>>

NextAuth ==
    \/ TokenRequiredRoute
    \/ GetUserDashboard
    \/ GetStaffDashboard
    \/ GetAdminDashboard
    \/ MainCreateMaintenanceRequest
    \/ MainGetMaintenanceRequests
    \/ MainCreateProperty
    \/ MainGetPayments
    \/ GetTenants

SpecAuth == InitMaint /\ [][NextAuth]_vars

(***************************************************************************)
(* Requests to the payment, notification and maintenance routes            *)
(***************************************************************************)
\* the Authorization headers these requests carry: none, tenant t1's valid
\* token, a token that fails verification
AccessHeaders == {NoHeader, Bearer(<<"t">>), Bearer(<<"x">>)}
\* the header of the caller whose identity jwt_required established
HeaderOfUser == [t1 |-> Bearer(<<"t">>), t2 |-> Bearer(<<"u">>)]
Amounts == {0, 100}
PhoneNumbers == {"", "0712"}

AccessAnswer(op, header, code, owner, records) ==
    [op |-> op, code |-> code, header |-> header, owner |-> owner,
     records |-> records]

MpesaPaymentRequest ==
    \E header \in AccessHeaders, amount \in Amounts, phone_number \in PhoneNumbers,
       user_id \in {"t1", "t2", ""} :
        LET out == mpesa_payment_request(amount, phone_number, user_id) IN
        /\ user_id # "" => payments[user_id] < MaxPayments
        /\ payments' = out.payments
        /\ users' = out.users
        /\ response' = AccessAnswer("mpesa_payment_request", header, out.code,
                                    user_id, 0)
        /\ UNCHANGED <<lease_info, blobs, maintVars, leaseVars, uploadVars,
                       push_notifications, propVars,
                       forgotVars, concVars>>

GetPaymentHistory ==
    \E header \in AccessHeaders, user_id \in Tenants :
        LET out == get_payment_history(user_id) IN
        /\ response' = AccessAnswer("get_payment_history", header, out.code,
                                    out.owner, out.records)
        /\ UNCHANGED <<users, lease_info, blobs, maintVars, leaseVars, uploadVars,
                       accessVars, propVars,
                       forgotVars, concVars>>

SendPushNotificationRoute ==
    \E header \in AccessHeaders, user_id \in {"t2", ""}, title \in {"", "Rent"},
       notification_id \in NotificationIds :
        LET out == send_push_notification_route(user_id, title, "due",
                                                notification_id) IN
        /\ user_id # "" => notification_id \notin StoredNotifications(user_id)
        /\ push_notifications' = out.push
        /\ response' = AccessAnswer("send_push_notification_route", header,
                                    out.code, user_id, 0)
        /\ UNCHANGED <<users, lease_info, blobs, maintVars, leaseVars, uploadVars,
                       payments, propVars,
                       forgotVars, concVars>>

GetUserNotifications ==
    \E header \in AccessHeaders, user_id \in {"t2"} :
        LET out == get_user_notifications(user_id) IN
        /\ response' = AccessAnswer("get_user_notifications", header, out.code,
                                    out.owner, out.records)
        /\ UNCHANGED <<users, lease_info, blobs, maintVars, leaseVars, uploadVars,
                       accessVars, propVars,
                       forgotVars, concVars>>

MarkNotificationAsRead ==
    \E header \in AccessHeaders, user_id \in {"t2"},
       notification_id \in NotificationIds :
        LET out == mark_notification_as_read(user_id, notification_id) IN
        /\ push_notifications' = out.push
        /\ response' = AccessAnswer("mark_notification_as_read", header, out.code,
                                    user_id, 0)
        /\ UNCHANGED <<users, lease_info, blobs, maintVars, leaseVars, uploadVars,
                       payments, propVars,
                       forgotVars, concVars>>

ApiAuthMe ==
    \E header \in AccessHeaders \cup Headers, db_ok \in BOOLEAN :
        LET out == api_auth_me(header, db_ok) IN
        /\ response' = AccessAnswer("api_auth_me", header, out.code, out.owner,
                                    out.records) @@ [db_ok |-> db_ok]
        /\ UNCHANGED <<users, lease_info, blobs, maintVars, leaseVars, uploadVars,
                       accessVars, propVars,
                       forgotVars, concVars>>

GetMaintenanceRequest ==
    \E current_user_id \in Tenants, request_id \in RequestIds :
        LET out == get_maintenance_request(current_user_id, request_id) IN
        /\ response' = AccessAnswer("get_maintenance_request",
                                    HeaderOfUser[current_user_id], out.code,
                                    maintenance_requests[request_id].user_id,
                                    out.records)
        /\ UNCHANGED <<users, lease_info, blobs, maintVars, leaseVars, uploadVars,
                       accessVars, propVars,
                       forgotVars, concVars>>

NextAccess ==
    \/ MpesaPaymentRequest
    \/ GetPaymentHistory
    \/ SendPushNotificationRoute
    \/ GetUserNotifications
    \/ MarkNotificationAsRead
    \/ ApiAuthMe
    \/ GetMaintenanceRequest

\* the database holding the maintenance requests r1 of tenant t1 and r2 of
\* tenant t2, as MaintenanceRequest.create (models.py:159-173) stores them
InitAccess ==
    /\ users = [u \in Uids |->
                  IF u = "nobody" THEN NoUser
                  ELSE StoredUser(Roles[u])]
    /\ lease_info = [u \in Uids |->
                  IF u = "t1" THEN [exists |-> TRUE, unit_id |-> Unit_p1_1] ELSE NoLease]
    /\ tenant_requests = [u \in Uids |-> {}]
    /\ maintenance_requests =
          [r \in RequestIds |->
             [NoRequest EXCEPT !.exists = TRUE, !.status = "pending",
                               !.user_id = IF r = "r1" THEN "t1" ELSE "t2"]]
    /\ notifications = [u \in Uids |-> 0]
    /\ rt_properties = {}
    /\ rt_units = OccupyLeasedUnit(<<>>, Unit_p1_1)
    /\ blobs = {[folder |-> "leases", owner |-> "t1", uuid |-> 0, name |-> LeaseFilename]}
    /\ storage_configured = TRUE
    /\ user_maint_photos = <<>>
    /\ payments = [u \in Uids |-> 0]
    /\ push_notifications = [u \in Uids |-> [n \in NotificationIds |-> "absent"]]
    /\ fs_properties = [d \in DocIds |-> NoDoc]
    /\ fs_submitted = [d \in DocIds |-> NoDoc]
    /\ mock_users = DemoUsers
    /\ otp_storage = [e \in Emails |-> NoOtp]
    /\ session = NoSession
    /\ reset_history = [e \in Emails |-> NoHistory]
    /\ inflight = [p \in Procs |-> IdleCall]
    /\ write_order = <<>>
    /\ dash_requests = (DashPath :> NoDashRequest)
    /\ response = [op |-> "none", code |-> 0]

SpecAccess == InitAccess /\ [][NextAccess]_vars

\* two status updates of a stored request, interleaved step by step
SpecConc == InitAccess /\ [][NextConc]_vars

(***************************************************************************)
(* Claims about file uploads                                               *)
(***************************************************************************)
\* the allow-lists as section 6 of the specification states them
ListedExtensions(file_type) ==
    CASE file_type = "images" ->
            {<<"p","n","g">>, <<"j","p","g">>, <<"j","p","e","g">>,
             <<"g","i","f">>, <<"b","m","p">>}
      [] file_type = "documents" ->
            {<<"p","d","f">>, <<"d","o","c">>, <<"d","o","c","x">>,
             <<"t","x","t">>, <<"r","t","f">>}
      [] file_type = "archives" -> {<<"z","i","p">>, <<"r","a","r">>}
      [] OTHER -> {}

\* the file name ends in "." followed by an extension of the list, in either
\* letter case
HasListedExtension(filename, file_type) ==
    \E ext \in ListedExtensions(file_type) :
        /\ Len(filename) > Len(ext)
        /\ filename[Len(filename) - Len(ext)] = "."
        /\ \A i \in 1..Len(ext) :
              LowerChar(filename[Len(filename) - Len(ext) + i]) = ext[i]

UploadOps == {"upload_file", "upload_lease_route", "upload_maintenance_photo"}

\* C5: on each of the three upload endpoints a request whose file name has no
\* extension, or one outside the allow-list of the applicable file type
\* (an unknown file_type has an empty list), is answered with 400, writes no
\* blob and changes no database record.
C5_DisallowedExtensionRejected ==
    [][ ( /\ response'.op \in UploadOps
          /\ ~HasListedExtension(response'.filename, response'.file_type) )
        => ( /\ response'.code = 400
             /\ blobs' = blobs
             /\ UNCHANGED <<users, lease_info, maintVars, leaseVars, uploadVars, accessVars, propVars>> )
      ]_vars

\* a lease upload of a.png was refused while the store already held a blob
C5_Witness ==
    /\ response.op = "upload_lease_route"
    /\ response.has_file
    /\ response.filename = <<"a", ".", "p", "n", "g">>
    /\ response.code = 400
    /\ blobs # {}

(***************************************************************************)
(* Claims about properties                                                 *)
(***************************************************************************)
\* C6: round trip: when create-property succeeded with a set of submitted
\* fields and returned id p, and p was not written since, a get of p answers
\* 200 with every submitted field, each with exactly the submitted value.
C6_CreateGetRoundTrip ==
    [][ ( /\ response'.op = "get_property"
          /\ fs_submitted[response'.property_id].exists )
        => LET submitted == fs_submitted[response'.property_id].data
               body == response'.body
           IN  /\ response'.code = 200
               /\ \A f \in DOMAIN submitted :
                     f \in DOMAIN body /\ body[f] = submitted[f]
      ]_vars

(***************************************************************************)
(* Claims about authentication and roles                                   *)
(***************************************************************************)
InTrace(trace, event) == \E i \in 1..Len(trace) : trace[i] = event

RoleRestrictedOps ==
    {"get_user_dashboard", "get_staff_dashboard", "get_admin_dashboard",
     "main_create_property", "main_create_maintenance_request", "get_tenants",
     "main_get_maintenance_requests", "main_get_payments"}

\* the roles each role-restricted route of main.py admits
PermittedRoles(op) ==
    CASE op \in {"get_user_dashboard", "main_create_maintenance_request"} -> {"tenant"}
      [] op = "get_staff_dashboard" -> {"staff"}
      [] op \in {"get_admin_dashboard", "main_create_property"} -> {"admin"}
      [] op = "get_tenants" -> {"staff", "admin"}
      [] OTHER -> {"tenant", "staff", "admin"}

\* the role claim of the callers holding a valid ID token ("" : no role)
TokenRole == [t |-> "tenant", u |-> "tenant", s |-> "staff", a |-> "admin", g |-> ""]
ValidTokens == {<<c>> : c \in DOMAIN TokenRole}
IsVerifiedCaller(header) ==
    \E c \in DOMAIN TokenRole : header = Header(<<"B","e","a","r","e","r"," ", c>>)
RoleOfCaller(header) == TokenRole[header.value[8]]

\* C8: on every role-restricted route of main.py a verified caller whose role
\* the route does not admit is answered with 403, and no data-access call is
\* made.
C8_RoleMismatchIs403 ==
    [][ ( /\ response'.op \in RoleRestrictedOps
          /\ IsVerifiedCaller(response'.header)
          /\ RoleOfCaller(response'.header) \notin PermittedRoles(response'.op) )
        => ( /\ response'.code = 403
             /\ ~InTrace(response'.trace, "data_access") )
      ]_vars

ProtectedOps == RoleRestrictedOps \cup {"token_required"}

\* nothing of the handler runs before the token was verified
VerifiedFirst(trace) ==
    \A i \in 1..Len(trace) :
        trace[i] \in {"handler", "data_access"}
            => \E j \in 1..(i - 1) : trace[j] = "verified"

\* the header is "Bearer " followed by a token (no space in it)
IsBearerForm(header) ==
    /\ header.present
    /\ Len(header.value) > 7
    /\ SubSeq(header.value, 1, 7) = <<"B","e","a","r","e","r"," ">>
    /\ \A i \in 8..Len(header.value) : header.value[i] # " "

UpToSpace(s) ==
    IF \A i \in 1..Len(s) : s[i] # " " THEN s
    ELSE SubSeq(s, 1, (CHOOSE i \in 1..Len(s) :
                          s[i] = " " /\ \A j \in 1..(i - 1) : s[j] # " ") - 1)
\* the text of s after its first space (empty when it has none)
AfterSpace(s) == SubSeq(s, Len(UpToSpace(s)) + 2, Len(s))

\* the token token_required takes from the header: the text between the first
\* and the second space of a header that starts with "Bearer "
DecoratorToken(header) ==
    IF header.present /\ Len(header.value) >= 7
       /\ SubSeq(header.value, 1, 7) = <<"B","e","a","r","e","r"," ">>
    THEN UpToSpace(AfterSpace(header.value))
    ELSE <<>>

\* the credentials HTTPBearer hands to get_current_user: the text after the
\* first space of a header whose scheme is bearer in any letter case
IsBearerScheme(header) ==
    /\ header.present
    /\ UpToSpace(header.value) \in
          {<<"B","e","a","r","e","r">>, <<"b","e","a","r","e","r">>}
    /\ AfterSpace(header.value) # <<>>

TokenUid == [t |-> "t1", u |-> "t2", s |-> "s1", a |-> "a1", g |-> "g1"]
UidOfCaller(header) == TokenUid[header.value[8]]

\* C4: a caller whose role is tenant who asks for the payments or for a
\* maintenance request of another tenant is answered with 403 and receives
\* none of that tenant's records.
C4_OtherTenantRecordsForbidden ==
    [][ ( /\ response'.op \in {"get_payment_history", "get_maintenance_request"}
          /\ IsVerifiedCaller(response'.header)
          /\ RoleOfCaller(response'.header) = "tenant"
          /\ response'.owner \in Tenants
          /\ response'.owner # UidOfCaller(response'.header) )
        => ( /\ response'.code = 403
             /\ response'.records = 0 )
      ]_vars

DataOps ==
    {"mpesa_payment_request", "get_payment_history",
     "send_push_notification_route", "get_user_notifications",
     "mark_notification_as_read", "api_auth_me", "get_maintenance_request"}

\* C7: a request to an endpoint that reads or writes user, payment,
\* notification or maintenance data and carries no valid bearer token is
\* rejected: whatever its status, the answer carries no stored record and
\* nothing is written to the database.
C7_NoTokenNoDataNoWrite ==
    [][ ( /\ response'.op \in DataOps
          /\ ~IsVerifiedCaller(response'.header) )
        => ( /\ response'.records = 0
             /\ UNCHANGED <<users, accessVars, maintVars>> )
      ]_vars

(***************************************************************************)
(* Claims about the origin of a unit's status                              *)
(***************************************************************************)
\* the unit nodes whose status is "occupied" in the units map
OccupiedUnits(units) ==
    {path \in DOMAIN units : units[path].status = "occupied"}

TargetsMissingRecord ==
    \/ /\ response'.op \in {"assign_maintenance_task", "update_maintenance_status"}
       /\ ~maintenance_requests[response'.request_id].exists
    \/ /\ response'.op = "assign_maintenance_task"
       /\ \/ ~users[response'.who].exists
          \/ users[response'.who].role # "staff"

\* C12: an assignment or status update that targets a missing maintenance
\* request, or an assignment to a user that is missing or not staff, is
\* answered with 404 and writes nothing to the database.
C12_MissingTargetIs404NoWrite ==
    [][ TargetsMissingRecord
        => ( /\ response'.code = 404
             /\ UNCHANGED <<users, lease_info, maintVars>> )
      ]_vars

(***************************************************************************)
(* Claims about the endpoints that never fail                              *)
(***************************************************************************)
\* C13: GET /api/auth/me answers every request with 200 and a user object
\* (one with a uid), whether the Authorization header is absent, malformed,
\* carries a token that fails verification, or the database read fails; it
\* never answers 401.
C13_AuthMeAlways200 ==
    [][ response'.op = "api_auth_me"
        => ( /\ response'.code = 200
             /\ response'.code # 401
             /\ response'.owner # "" )
      ]_vars

\* /api/auth/me was asked with a verifiable token while the database read
\* failed, and answered
C13_Witness ==
    /\ response.op = "api_auth_me"
    /\ IsVerifiedCaller(response.header)
    /\ ~response.db_ok
    /\ response.code = 200

\* C14: GET /api/properties answers every request with 200 and a list, for
\* every combination of the search and city parameters, also when the
\* database layer is uninitialised or raises; a database failure is never
\* answered with 500.
C14_PublicPropertiesAlways200 ==
    [][ response'.op = "get_public_properties"
        => ( /\ response'.code = 200
             /\ response'.code # 500
             /\ response'.is_list
             /\ response'.body \in Seq({"1", "2", "3"}) )
      ]_vars

\* /api/properties was asked with both filters while the database layer
\* failed, and answered with the one mock property that matches
C14_Witness ==
    /\ response.op = "get_public_properties"
    /\ response.db_state # "ok"
    /\ Truthy(response.search) /\ Truthy(response.city)
    /\ response.code = 200
    /\ response.body = <<"2">>

(***************************************************************************)
(* Claims about partial application                                        *)
(***************************************************************************)
\* the step is an assign_maintenance_task call that passed both existence
\* tests and whose notification step stored no notification for the staff
\* member
AssignNotificationFailed ==
    /\ response'.op = "assign_maintenance_task"
    /\ maintenance_requests[response'.request_id].exists
    /\ users[response'.who].exists
    /\ users[response'.who].role = "staff"
    /\ notifications'[response'.who] = notifications[response'.who]

\* C15: when the notification step of assign_maintenance_task fails, the
\* operation reports an error while the writes made before it (assigned_to,
\* priority, status = in_progress and one more update-log entry) are stored
\* in the state the step leaves behind.
C15_AssignPartialApplication ==
    [][ AssignNotificationFailed
        => LET before == maintenance_requests[response'.request_id]
               after == maintenance_requests'[response'.request_id]
           IN  /\ response'.code >= 400
               /\ after.assigned_to = response'.who
               /\ after.priority = response'.arg
               /\ after.status = "in_progress"
               /\ after.updates = before.updates + 1
      ]_vars

\* an assignment was answered with an error and its writes are stored
C15_Witness ==
    /\ response.op = "assign_maintenance_task"
    /\ response.code = 500
    /\ notifications[response.who] = 0
    /\ maintenance_requests[response.request_id].assigned_to = response.who
    /\ maintenance_requests[response.request_id].assigned_to = "s1"
    /\ maintenance_requests[response.request_id].status = "in_progress"
    /\ maintenance_requests[response.request_id].updates >= 1

(***************************************************************************)
(* Claims about concurrent status updates                                  *)
(***************************************************************************)
\* the calls of one implementation, and their status writes in order
CallsOf(impl) == {p \in Procs : inflight[p].impl = impl}
RECURSIVE WritesOf(_, _)
WritesOf(impl, order) ==
    IF order = <<>> THEN <<>>
    ELSE IF Head(order) \in CallsOf(impl)
    THEN <<Head(order)>> \o WritesOf(impl, Tail(order))
    ELSE WritesOf(impl, Tail(order))
\* the status stored where the calls of impl write it
StoredStatus(impl) ==
    IF impl = "crud" THEN maintenance_requests[ConcRequest].status
    ELSE dash_requests[DashPath].status
\* both calls went through impl and wrote a status
BothWrote(impl) ==
    /\ CallsOf(impl) = Procs
    /\ Len(WritesOf(impl, write_order)) = 2
    /\ \A p \in Procs : inflight[p].pc = "done"

\* C16: when two status updates of the same maintenance request have both
\* written the status and ended, in whatever order their steps ran, neither
\* was answered with a conflict error and the stored status is the value of
\* the call whose status write came last, one of the two requested values.
C16_LastStatusWriteWins ==
    \A impl \in {"crud", "dashboard"} :
        BothWrote(impl)
        => LET writes == WritesOf(impl, write_order) IN
           /\ \A p \in Procs : inflight[p].code \notin {409, 412}
           /\ StoredStatus(impl) = inflight[writes[2]].status
           /\ StoredStatus(impl) \in {inflight[p].status : p \in Procs}

\* two calls of crud.update_maintenance_status interleaved read A, read B,
\* write B, write A (B asked for completed, A for cancelled) and ended
C16_Witness ==
    /\ BothWrote("crud")
    /\ write_order = <<"B", "A">>
    /\ inflight["A"].status = "cancelled"
    /\ inflight["B"].status = "completed"
    /\ maintenance_requests[ConcRequest].status = "cancelled"

(***************************************************************************)
(* Claims about the password reset                                         *)
(***************************************************************************)
\* C17: the response of POST /api/forgot-password (status code and body) to
\* a request naming an email is the one any other email would have got in
\* the same state with the same outcome of the email-sending step, whether
\* or not the emails belong to registered users.
C17_ForgotPasswordSameResponse ==
    [][ ( /\ response'.op = "forgot_password"
          /\ response'.email # "" )
        => \A other \in Emails \ {""} :
              LET r == forgot_password(other, response'.otp, response'.send_result)
              IN  /\ response'.code = r.code
                  /\ response'.body = r.body
      ]_vars

(***************************************************************************)
(* Claims about what a PUT leaves unchanged                                *)
(***************************************************************************)
\* the stored role of a caller, "" for a caller without a user record
StoredRole(uid) == IF users[uid].exists THEN users[uid].role ELSE ""

\* C18: a PUT on a maintenance request by a caller whose role is neither
\* admin nor staff leaves the stored status of every request as it was,
\* whatever status the body carries; a PUT that changes a status comes from
\* an admin or staff caller.
C18_TenantPutKeepsStatus ==
    [][ response'.op = "update_maintenance_request"
        => ( \/ StoredRole(response'.who) \in {"admin", "staff"}
             \/ \A r \in RequestIds :
                   maintenance_requests'[r].status = maintenance_requests[r].status )
      ]_vars

\* a tenant sent a PUT with another status for a stored request of their own
C18_Witness ==
    /\ response.op = "update_maintenance_request"
    /\ response.who = "t1"
    /\ maintenance_requests[response.request_id].exists
    /\ "t1" \in {maintenance_requests[response.request_id].tenant_id,
                 maintenance_requests[response.request_id].user_id}
    /\ maintenance_requests[response.request_id].status # response.arg

\* C19: a PUT on a user record, answered while the database reads succeed,
\* leaves the stored uid, email and created_at of that user as they were,
\* whatever the body carries, and a caller who is neither the user nor an
\* admin is answered with 403 and no user record changes.
C19_PutKeepsIdentityFields ==
    [][ ( response'.op = "update_user" /\ response'.get_ok )
        => LET u == response'.user_id IN
           /\ users'[u].uid = users[u].uid
           /\ users'[u].email = users[u].email
           /\ users'[u].created_at = users[u].created_at
           /\ ( response'.who # u /\ StoredRole(response'.who) # "admin" )
                 => ( response'.code = 403 /\ users' = users )
      ]_vars

C21_TenantCreateStoresSubmitted ==
    [][ ( /\ response'.op = "main_create_maintenance_request"
          /\ IsVerifiedCaller(response'.header)
          /\ RoleOfCaller(response'.header) = "tenant"
          /\ response'.db_ok )
        => LET u == UidOfCaller(response'.header) IN
           IF ~lease_info[u].exists \/ lease_info[u].unit_id = <<>>
           THEN response'.code = 400 /\ UNCHANGED maintVars
           ELSE \E r \in RequestIds :
                   /\ ~maintenance_requests[r].exists
                   /\ maintenance_requests'[r].exists
                   /\ maintenance_requests'[r].status = "submitted"
                   /\ maintenance_requests'[r].tenant_id = u
                   /\ maintenance_requests'[r].unit_id = lease_info[u].unit_id
      ]_vars

(***************************************************************************)
(* Claims about the reset of a password                                    *)
(***************************************************************************)
\* C22: every POST /api/reset-password answered with 200 for an email comes
\* after a forgot-password for that email and after a verify-otp for it
\* that was answered with 200 for the OTP the latest forgot-password issued,
\* both later than the previous successful reset for the email, and the
\* token of the request is the one the latest successful verification
\* returned; so a token changes a password at most once.
C22_ResetNeedsForgotAndVerify ==
    [][ ( /\ response'.op = "reset_password"
          /\ response'.code = 200 )
        => LET h == reset_history[response'.email] IN
           /\ h.forgot
           /\ h.verified
           /\ h.token = response'.resetToken
      ]_vars

\* a reset was answered with 200 and changed the password of the demo tenant
C22_Witness ==
    /\ response.op = "reset_password"
    /\ response.code = 200
    /\ response.email = "tenant@example.com"
    /\ mock_users["tenant@example.com"].password = "New@4567"
    /\ ~otp_storage["tenant@example.com"].exists

C24_LoginNeedsStoredPassword ==
    [][ ( /\ response'.op = "login"
          /\ response'.email # ""
          /\ mock_users[response'.email].exists )
        => IF response'.password = mock_users[response'.email].password
           THEN response'.code = 200
                   => session' = [user |-> response'.email,
                                  role |-> mock_users[response'.email].role]
           ELSE /\ response'.code >= 400
                /\ session' = session
      ]_vars

(***************************************************************************)
(* Claims about roles                                                      *)
(***************************************************************************)
\* the caller of a step is no admin: an update-user caller whose stored role
\* is not admin, a registration from a session that is not an admin's
CallerIsNoAdmin ==
    \/ /\ response'.op = "update_user"
       /\ ~(users[response'.who].exists /\ users[response'.who].role = "admin")
    \/ /\ response'.op \in {"register", "main_register"}
       /\ session.role # "admin"

\* C25: a register or update-user request of a caller who is no admin
\* leaves every user record with the role it had or with role tenant: a
\* registration stores role tenant, and an update-user of a non-admin
\* changes no role, the caller's own included.
C25_NonAdminGrantsNoRole ==
    [][ CallerIsNoAdmin
        => /\ \A u \in Uids :
                 users'[u].exists
                 => \/ users'[u].role = "tenant"
                    \/ users[u].exists /\ users'[u].role = users[u].role
           /\ \A e \in Emails :
                 mock_users'[e].exists
                 => \/ mock_users'[e].role = "tenant"
                    \/ mock_users[e].exists /\ mock_users'[e].role = mock_users[e].role
      ]_vars

====
